---- MODULE Spec2Model ----
(***************************************************************************)
(* Hyper4D: the 4D transform pipeline (Scene4D.useFrame), the zustand      *)
(* store it reads, and the algebra, projection, colour and shape code it   *)
(* calls.                                                                  *)
(*                                                                         *)
(* Numbers.  The program computes in IEEE doubles; the model computes in   *)
(* fixed point, every quantity an integer count of a unit:                 *)
(*   angles and angular velocities   1/AngleScale rad (rad/s)              *)
(*   coordinates, w, slice, distance 1/CoordScale                          *)
(*   sines, cosines, matrix entries  1/TrigScale                           *)
(*   morph progress, eased t, colour t, blend s   1/UnitScale              *)
(*   elapsed time                    1/TimeScale s (milliseconds)          *)
(*   colour channels                 0..255                                *)
(* A product of two scaled values is divided by the scale, rounding to the *)
(* nearest unit (RoundDiv).                                                *)
(*                                                                         *)
(* Indices.  The program's arrays are 0-based; the model's sequences are   *)
(* 1-based, so vertex i of the program is element i+1.  Edge endpoints     *)
(* keep the program's 0-based values.                                      *)
(***************************************************************************)
EXTENDS Integers, Sequences, FiniteSets, TLC

AngleScale == 10^4
CoordScale == 10^3
TrigScale  == 10^4
UnitScale  == 10^3
TimeScale  == 10^3

----------------------------------------------------------------------------
(* IEEE values outside the fixed-point range.  NaN is the value every     *)
(* arithmetic operation propagates and every comparison rejects;          *)
(* Infinity and -Infinity are the seeds of the minW / maxW loop.          *)

NaN == 2^30

Infinity == 2^30 + 1

IsNaN(x) == x = NaN

\* the product of the operands is NaN when one of them is
AnyNaN4(a, b, c, d) == IsNaN(a) \/ IsNaN(b) \/ IsNaN(c) \/ IsNaN(d)

----------------------------------------------------------------------------
(* Arithmetic helpers *)

Abs(x) == IF x < 0 THEN -x ELSE x

Sign(x) == IF x < 0 THEN -1 ELSE 1

\* a / b rounded to the nearest integer, halves away from zero (b # 0)
RoundDiv(a, b) ==
    Sign(a) * Sign(b) * ((2 * Abs(a) + Abs(b)) \div (2 * Abs(b)))

\* an array with every element computed
Array(f) == SubSeq(f, 1, Len(f))

Min2(a, b) == IF a < b THEN a ELSE b

Max2(a, b) == IF a > b THEN a ELSE b

\* Math.PI / 2 in angle units
HalfPi == (15708 * AngleScale) \div 10^4

RECURSIVE SinTerms(_, _, _)
\* the terms of the polynomial from the one of degree k on, t being that
\* term without its sign: x^k/k! - x^(k+2)/(k+2)! + ... up to degree 9
SinTerms(t, x2, k) ==
    IF k = 9 THEN t
    ELSE t - SinTerms(RoundDiv(RoundDiv(t * x2, AngleScale), (k + 1) * (k + 2)),
                      x2, k + 2)

\* Math.sin on [0, pi/2] by its Taylor polynomial, argument in angle
\* units, result in trig units
SinQuadrant(x) ==
    RoundDiv(SinTerms(x, RoundDiv(x * x, AngleScale), 1) * TrigScale, AngleScale)

\* Math.sin(angle)
SinFinite(angle) ==
    LET r == angle % (4 * HalfPi)
    IN  IF r <= HalfPi THEN SinQuadrant(r)
        ELSE IF r <= 2 * HalfPi THEN SinQuadrant(2 * HalfPi - r)
        ELSE IF r <= 3 * HalfPi THEN -SinQuadrant(r - 2 * HalfPi)
        ELSE -SinQuadrant(4 * HalfPi - r)

\* Math.sin(angle); Math.sin(NaN) is NaN
Sin(angle) == IF IsNaN(angle) THEN NaN ELSE SinFinite(angle)

\* Math.cos(angle); Math.cos(NaN) is NaN
Cos(angle) == IF IsNaN(angle) THEN NaN ELSE SinFinite(angle + HalfPi)

----------------------------------------------------------------------------
(* engine/math4d.ts *)

vec4(x, y, z, w) == <<x, y, z, w>>

identity4 ==
    << <<TrigScale, 0, 0, 0>>,
       <<0, TrigScale, 0, 0>>,
       <<0, 0, TrigScale, 0>>,
       <<0, 0, 0, TrigScale>> >>

mulMat4(a, b) ==
    LET entry(i, j) ==
            IF AnyNaN4(a[i][1], a[i][2], a[i][3], a[i][4])
               \/ AnyNaN4(b[1][j], b[2][j], b[3][j], b[4][j])
            THEN NaN
            ELSE RoundDiv(a[i][1] * b[1][j] + a[i][2] * b[2][j]
                          + a[i][3] * b[3][j] + a[i][4] * b[4][j], TrigScale)
        row(i) == <<entry(i, 1), entry(i, 2), entry(i, 3), entry(i, 4)>>
    IN  <<row(1), row(2), row(3), row(4)>>

mulMatVec4(m, v) ==
    LET entry(i) ==
            IF AnyNaN4(m[i][1], m[i][2], m[i][3], m[i][4])
               \/ AnyNaN4(v[1], v[2], v[3], v[4])
            THEN NaN
            ELSE RoundDiv(m[i][1] * v[1] + m[i][2] * v[2]
                          + m[i][3] * v[3] + m[i][4] * v[4], TrigScale)
    IN  <<entry(1), entry(2), entry(3), entry(4)>>

\* the identity with the Givens block (c, -s; s, c) on axes p < q
GivensBlock(p, q, c, s) ==
    LET entry(i, j) == IF i = p /\ j = p THEN c
                       ELSE IF i = p /\ j = q THEN (IF IsNaN(s) THEN NaN ELSE -s)
                       ELSE IF i = q /\ j = p THEN s
                       ELSE IF i = q /\ j = q THEN c
                       ELSE IF i = j THEN TrigScale
                       ELSE 0
        row(i) == <<entry(i, 1), entry(i, 2), entry(i, 3), entry(i, 4)>>
    IN  <<row(1), row(2), row(3), row(4)>>

Givens(p, q, angle) == GivensBlock(p, q, Cos(angle), Sin(angle))

rotateXY(angle) == Givens(1, 2, angle)

rotateXZ(angle) == Givens(1, 3, angle)

\* the transposed block (c, s; -s, c) on the axes x and w
rotateWX(angle) == Givens(1, 4, -angle)

rotateXW(angle) == Givens(1, 4, angle)

rotateYZ(angle) == Givens(2, 3, angle)

rotateYW(angle) == Givens(2, 4, angle)

rotateZW(angle) == Givens(3, 4, angle)

\* the right-to-left product mn * ... * m1 * acc
RECURSIVE composeFromRight(_, _, _)
composeFromRight(acc, matrices, k) ==
    IF k > Len(matrices) THEN acc
    ELSE composeFromRight(mulMat4(matrices[k], acc), matrices, k + 1)

RECURSIVE composeFrom(_, _, _)
composeFrom(acc, matrices, k) ==
    IF k > Len(matrices) THEN acc
    ELSE composeFrom(mulMat4(acc, matrices[k]), matrices, k + 1)

\* matrices.reduce((acc, m) => mulMat4(acc, m), identity4())
composeRotations(matrices) == composeFrom(identity4, matrices, 1)

\* a projection without the guard
NeverNearZero(w) == FALSE

\* |w| < 0.0001
NearZero(w) == Abs(w) * 10^4 < CoordScale

\* x * 1000, NaN kept
Times1000(x) == IF IsNaN(x) THEN NaN ELSE x * 1000

\* (x * scale) / w, NaN when x is; w is finite here.  A division by zero
\* does not throw: it gives NaN for 0/0 and 0 * Infinity, a signed
\* Infinity otherwise
Scaled(x, scale, w) ==
    IF IsNaN(x) THEN NaN
    ELSE IF w = 0
    THEN (IF x * scale = 0 THEN NaN ELSE Sign(x * scale) * Infinity)
    ELSE RoundDiv(x * scale, w)

projectPerspective4Dto3D(point, viewDistance) ==
    IF IsNaN(point[4])
    THEN <<NaN, NaN, NaN>>
    ELSE LET w == viewDistance - point[4]
         IN  IF NearZero(w)
             THEN <<Times1000(point[1]), Times1000(point[2]), Times1000(point[3])>>
             ELSE <<Scaled(point[1], viewDistance, w),
                    Scaled(point[2], viewDistance, w),
                    Scaled(point[3], viewDistance, w)>>

projectOrthographic4Dto3D(point) == <<point[1], point[2], point[3]>>

projectStereographic4Dto3D(point, projectionPoint) ==
    IF IsNaN(point[4])
    THEN <<NaN, NaN, NaN>>
    ELSE LET denom == projectionPoint - point[4]
         IN  IF NearZero(denom)
             THEN <<Times1000(point[1]), Times1000(point[2]), Times1000(point[3])>>
             ELSE <<Scaled(point[1], CoordScale, denom),
                    Scaled(point[2], CoordScale, denom),
                    Scaled(point[3], CoordScale, denom)>>

----------------------------------------------------------------------------
(* utils/ColorCache.ts *)

RGB(r, g, b) == <<r, g, b>>

DEEP_BLUE == RGB(10, 26, 61)      \* 0x0a1a3d

CYAN      == RGB(0, 188, 212)     \* 0x00bcd4

MAGENTA   == RGB(233, 30, 99)     \* 0xe91e63

GOLD      == RGB(255, 193, 7)     \* 0xffc107

\* THREE.Color.lerpColors(c1, c2, s)
lerpColors(c1, c2, s) ==
    [k \in 1..3 |-> c1[k] + RoundDiv((c2[k] - c1[k]) * s, UnitScale)]

\* the 0.33 and 0.67 breakpoints of the gradient
Stop1 == (33 * UnitScale) \div 100

Stop2 == (67 * UnitScale) \div 100

\* maxW - minW || 1
ColorRange(minW, maxW) == IF maxW - minW # 0 THEN maxW - minW ELSE CoordScale

\* Math.max(0, Math.min(1, (w - minW) / range))
ColorT(w, minW, maxW) ==
    Max2(0, Min2(UnitScale, RoundDiv((w - minW) * UnitScale, ColorRange(minW, maxW))))

\* a blend parameter that divides by 0.33 in every segment
BlendThirds(t) ==
    IF t < Stop1 THEN RoundDiv(t * 100, 33)
    ELSE IF t < Stop2 THEN RoundDiv((t - Stop1) * 100, 33)
    ELSE RoundDiv((t - Stop2) * 100, 33)

\* s of the segment t falls in: t / 0.33, (t - 0.33) / 0.34, (t - 0.67) / 0.33
BlendParameter(t) ==
    IF t < Stop1 THEN RoundDiv(t * 100, 33)
    ELSE IF t < Stop2 THEN RoundDiv((t - Stop1) * 100, 34)
    ELSE RoundDiv((t - Stop2) * 100, 33)

\* the gradient of the segment t falls in, at blend parameter s
Gradient(t, s) ==
    IF t < Stop1 THEN lerpColors(DEEP_BLUE, CYAN, s)
    ELSE IF t < Stop2 THEN lerpColors(CYAN, MAGENTA, s)
    ELSE lerpColors(MAGENTA, GOLD, s)

wToColorFinite(w, minW, maxW) ==
    Gradient(ColorT(w, minW, maxW), BlendParameter(ColorT(w, minW, maxW)))

\* a NaN w leaves t NaN, both comparisons false, and the last lerp NaN
wToColorCached(w, minW, maxW) ==
    IF IsNaN(w) THEN RGB(NaN, NaN, NaN) ELSE wToColorFinite(w, minW, maxW)

----------------------------------------------------------------------------
(* engine/shapes4d.ts: the factories the pipeline calls through            *)
(* SHAPE_CATALOG[key].create(1)                                            *)

Bit(i, k) == (i \div 2^k) % 2

\* i ^ j on 4-bit indices
BitXor(i, j) ==
    LET x(k) == ((Bit(i, k) + Bit(j, k)) % 2) * 2^k
    IN  x(0) + x(1) + x(2) + x(3)

\* i & j on 4-bit indices
BitAnd(i, j) ==
    LET a(k) == (Bit(i, k) * Bit(j, k)) * 2^k
    IN  a(0) + a(1) + a(2) + a(3)

\* the pairs (i, j), 0 <= i < j < n, in the order of the nested loops
\* for (i = 0; i < n; i++) for (j = i + 1; j < n; j++)
LoopPairs(n) ==
    SelectSeq([k \in 1..(n * n) |-> <<(k - 1) \div n, (k - 1) % n>>],
              LAMBDA e : e[1] < e[2])

createTesseract(size) ==
    LET s == size \div 2
        vertices == [n \in 1..16 |->
                        LET i == n - 1
                        IN  vec4(IF Bit(i, 0) = 1 THEN s ELSE -s,
                                 IF Bit(i, 1) = 1 THEN s ELSE -s,
                                 IF Bit(i, 2) = 1 THEN s ELSE -s,
                                 IF Bit(i, 3) = 1 THEN s ELSE -s)]
        OneBit(e) == LET diff == BitXor(e[1], e[2])
                     IN  diff # 0 /\ BitAnd(diff, diff - 1) = 0
    IN  [name |-> "Tesseract",
         vertices |-> vertices,
         edges |-> SelectSeq(LoopPairs(16), OneBit),
         color |-> RGB(79, 195, 247)]     \* '#4fc3f7'

create16Cell(size) ==
    LET s == size
        vertices == << vec4(s, 0, 0, 0), vec4(-s, 0, 0, 0),
                       vec4(0, s, 0, 0), vec4(0, -s, 0, 0),
                       vec4(0, 0, s, 0), vec4(0, 0, -s, 0),
                       vec4(0, 0, 0, s), vec4(0, 0, 0, -s) >>
        NotAntipodal(e) == (e[1] \div 2) # (e[2] \div 2)
    IN  [name |-> "16-Cell",
         vertices |-> vertices,
         edges |-> SelectSeq(LoopPairs(8), NotAntipodal),
         color |-> RGB(255, 112, 67)]     \* '#ff7043'

\* the keys of SHAPE_CATALOG the model draws the active shape from
ShapeKeys == {"tesseract", "16cell"}

----------------------------------------------------------------------------
(* The catalog's other factories (the nine-shape catalog).  Lengths are   *)
(* in coordinate units, squared lengths in their squares.                 *)

RECURSIVE NewtonSqrt(_, _)
NewtonSqrt(n, x) ==
    IF (x + n \div x) \div 2 >= x THEN x ELSE NewtonSqrt(n, (x + n \div x) \div 2)

\* the nearest integer to the square root of n
RoundSqrt(n) ==
    IF n = 0 THEN 0
    ELSE IF n - NewtonSqrt(n, n) * NewtonSqrt(n, n) > NewtonSqrt(n, n)
    THEN NewtonSqrt(n, n) + 1
    ELSE NewtonSqrt(n, n)

\* Math.sqrt(k) for a small integer k
SqrtOf(k) == RoundSqrt(k * CoordScale * CoordScale)

\* dx * dx + dy * dy + dz * dz + dw * dw
Dist2(a, b) ==
    (a[1] - b[1]) * (a[1] - b[1]) + (a[2] - b[2]) * (a[2] - b[2])
    + (a[3] - b[3]) * (a[3] - b[3]) + (a[4] - b[4]) * (a[4] - b[4])

\* the pairs of LoopPairs(n) whose vertices satisfy Near, in loop order
EdgesWhere(vertices, Near(_, _)) ==
    SelectSeq(LoopPairs(Len(vertices)),
              LAMBDA e : Near(vertices[e[1] + 1], vertices[e[2] + 1]))

\* coord * size / Math.sqrt(2)
OverSqrt2(coord, size) == RoundDiv(coord * size * CoordScale, SqrtOf(2))

permutations ==
    << <<0, 1, 2, 3>>, <<0, 1, 3, 2>>, <<0, 2, 1, 3>>, <<0, 2, 3, 1>>,
       <<0, 3, 1, 2>>, <<0, 3, 2, 1>>, <<1, 0, 2, 3>>, <<1, 0, 3, 2>>,
       <<1, 2, 0, 3>>, <<1, 2, 3, 0>>, <<1, 3, 0, 2>>, <<1, 3, 2, 0>>,
       <<2, 0, 1, 3>>, <<2, 0, 3, 1>>, <<2, 1, 0, 3>>, <<2, 1, 3, 0>>,
       <<2, 3, 0, 1>>, <<2, 3, 1, 0>>, <<3, 0, 1, 2>>, <<3, 0, 2, 1>>,
       <<3, 1, 0, 2>>, <<3, 1, 2, 0>>, <<3, 2, 0, 1>>, <<3, 2, 1, 0>> >>

baseCoords == <<1, 1, 0, 0>>

\* the sign combinations of one permutation's coords
signVariations(coords) ==
    IF coords[1] # 0 /\ coords[2] # 0
    THEN << <<1, 1, 1, 1>>, <<1, -1, 1, 1>>, <<-1, 1, 1, 1>>, <<-1, -1, 1, 1>> >>
    ELSE << >>

\* vertices.some(v => every |v[k] - vertex[k]| < 0.001)
isDuplicate(vertices, vertex) ==
    \E n \in 1..Len(vertices) :
        \A k \in 1..4 : Abs(vertices[n][k] - vertex[k]) * 1000 < CoordScale

RECURSIVE PushSigned(_, _, _, _, _)
\* for (const signs of signVariations) ... if (!isDuplicate) vertices.push(vertex)
PushSigned(vertices, coords, variations, n, size) ==
    IF n > Len(variations) THEN vertices
    ELSE PushSigned(
            IF isDuplicate(vertices,
                           vec4(OverSqrt2(coords[1] * variations[n][1], size),
                                OverSqrt2(coords[2] * variations[n][2], size),
                                OverSqrt2(coords[3] * variations[n][3], size),
                                OverSqrt2(coords[4] * variations[n][4], size)))
            THEN vertices
            ELSE Append(vertices,
                        vec4(OverSqrt2(coords[1] * variations[n][1], size),
                             OverSqrt2(coords[2] * variations[n][2], size),
                             OverSqrt2(coords[3] * variations[n][3], size),
                             OverSqrt2(coords[4] * variations[n][4], size))),
            coords, variations, n + 1, size)

RECURSIVE PushPermuted(_, _, _)
\* for (const perm of permutations) ...
PushPermuted(vertices, p, size) ==
    IF p > Len(permutations) THEN vertices
    ELSE PushPermuted(
            PushSigned(vertices,
                       <<baseCoords[permutations[p][1] + 1],
                         baseCoords[permutations[p][2] + 1],
                         baseCoords[permutations[p][3] + 1],
                         baseCoords[permutations[p][4] + 1]>>,
                       signVariations(<<baseCoords[permutations[p][1] + 1],
                                        baseCoords[permutations[p][2] + 1],
                                        baseCoords[permutations[p][3] + 1],
                                        baseCoords[permutations[p][4] + 1]>>),
                       1, size),
            p + 1, size)

baseVertices ==
    << <<1, 1, 0, 0>>, <<1, -1, 0, 0>>, <<-1, 1, 0, 0>>, <<-1, -1, 0, 0>>,
       <<1, 0, 1, 0>>, <<1, 0, -1, 0>>, <<-1, 0, 1, 0>>, <<-1, 0, -1, 0>>,
       <<1, 0, 0, 1>>, <<1, 0, 0, -1>>, <<-1, 0, 0, 1>>, <<-1, 0, 0, -1>>,
       <<0, 1, 1, 0>>, <<0, 1, -1, 0>>, <<0, -1, 1, 0>>, <<0, -1, -1, 0>>,
       <<0, 1, 0, 1>>, <<0, 1, 0, -1>>, <<0, -1, 0, 1>>, <<0, -1, 0, -1>>,
       <<0, 0, 1, 1>>, <<0, 0, 1, -1>>, <<0, 0, -1, 1>>, <<0, 0, -1, -1>> >>

\* the vertex list after the `vertices.length !== 24` correction
Vertices24(firstTry, size) ==
    IF Len(firstTry) # 24
    THEN Array([n \in 1..24 |->
                  vec4(baseVertices[n][1] * OverSqrt2(1, size),
                       baseVertices[n][2] * OverSqrt2(1, size),
                       baseVertices[n][3] * OverSqrt2(1, size),
                       baseVertices[n][4] * OverSqrt2(1, size))])
    ELSE firstTry

\* the edge rule |dist2 - targetDist2| < 0.1, targetDist2 = 2 (size / sqrt 2)^2
Edges24(vertices, targetDist2) ==
    EdgesWhere(vertices,
               LAMBDA a, b : Abs(Dist2(a, b) - targetDist2) * 10
                                < CoordScale * CoordScale)

Shape24(vertices, size) ==
    [name |-> "24-Cell",
     vertices |-> vertices,
     edges |-> Edges24(vertices, 2 * OverSqrt2(1, size) * OverSqrt2(1, size)),
     color |-> RGB(171, 71, 188)]     \* '#ab47bc'

create24Cell(size) == Shape24(Vertices24(PushPermuted(<< >>, 1, size), size), size)

\* vertices[i].map(v => (v / len) * targetR), when len > 0
Normalized(v, len, targetR) ==
    IF len > 0
    THEN vec4(RoundDiv(v[1] * targetR, len), RoundDiv(v[2] * targetR, len),
              RoundDiv(v[3] * targetR, len), RoundDiv(v[4] * targetR, len))
    ELSE v

\* Math.sqrt(v[0] ** 2 + v[1] ** 2 + v[2] ** 2 + v[3] ** 2)
Norm(v) == RoundSqrt(v[1] * v[1] + v[2] * v[2] + v[3] * v[3] + v[4] * v[4])

Simplex(a, b, c, d, size) ==
    [name |-> "5-Cell",
     vertices |-> << Normalized(vec4(a * 4, 0, 0, 0), Norm(vec4(a * 4, 0, 0, 0)), size),
                     Normalized(vec4(-a, b * 3, 0, 0), Norm(vec4(-a, b * 3, 0, 0)), size),
                     Normalized(vec4(-a, -b, c * 2, 0), Norm(vec4(-a, -b, c * 2, 0)), size),
                     Normalized(vec4(-a, -b, -c, d), Norm(vec4(-a, -b, -c, d)), size),
                     Normalized(vec4(-a, -b, -c, -d), Norm(vec4(-a, -b, -c, -d)), size) >>,
     edges |-> LoopPairs(5),
     color |-> RGB(102, 187, 106)]    \* '#66bb6a'

create5Cell(size) ==
    Simplex(RoundDiv(size * CoordScale, SqrtOf(10)),
            RoundDiv(size * CoordScale, SqrtOf(6)),
            RoundDiv(size * CoordScale, SqrtOf(3)),
            size, size)

MAX_TORUS_SEGMENTS == 24

\* (2 * Math.PI * i) / segments
Turn(i, segments) == RoundDiv(4 * HalfPi * i, segments)

\* radius * Math.cos(angle), radius * Math.sin(angle)
OnCircleCos(radius, angle) == RoundDiv(radius * Cos(angle), TrigScale)

OnCircleSin(radius, angle) == RoundDiv(radius * Sin(angle), TrigScale)

\* the body of the double loop for (i, j): the vertex pushed
TorusVertex(majorRadius, minorRadius, i, j, s1, s2) ==
    vec4(OnCircleCos(majorRadius, Turn(i, s1)), OnCircleSin(majorRadius, Turn(i, s1)),
         OnCircleCos(minorRadius, Turn(j, s2)), OnCircleSin(minorRadius, Turn(j, s2)))

\* the body of the double loop for (i, j): the m-th of the two edges pushed
TorusEdge(i, j, s1, s2, m) ==
    IF m = 0 THEN <<i * s2 + j, i * s2 + ((j + 1) % s2)>>
    ELSE <<i * s2 + j, ((i + 1) % s1) * s2 + j>>

\* the loops run i over 0..s1-1 and j over 0..s2-1, s1 and s2 capped
Torus(majorRadius, minorRadius, s1, s2) ==
    [name |-> "Clifford Torus",
     vertices |-> Array([n \in 1..(s1 * s2) |->
                    TorusVertex(majorRadius, minorRadius,
                                (n - 1) \div s2, (n - 1) % s2, s1, s2)]),
     edges |-> Array([n \in 1..(2 * s1 * s2) |->
                    TorusEdge(((n - 1) \div 2) \div s2, ((n - 1) \div 2) % s2,
                              s1, s2, (n - 1) % 2)]),
     color |-> RGB(255, 167, 38)]     \* '#ffa726'

create4DTorus(majorRadius, minorRadius, segments1, segments2) ==
    Torus(majorRadius, minorRadius,
          Max2(0, Min2(segments1, MAX_TORUS_SEGMENTS)),
          Max2(0, Min2(segments2, MAX_TORUS_SEGMENTS)))

MAX_SPHERE_VERTICES == 200

MAX_SPHERE_DETAIL == 4

MAX_EDGES == 800

\* Math.ceil(n / 2)
HalfUp(n) == (n + 1) \div 2

\* the vertex pushed for (i, j, k)
SphereVertex(radius, n, i, j, k) ==
    vec4(RoundDiv(OnCircleSin(radius, RoundDiv(2 * HalfPi * i, n))
                    * Cos(Turn(j, n)), TrigScale),
         RoundDiv(OnCircleSin(radius, RoundDiv(2 * HalfPi * i, n))
                    * Sin(Turn(j, n)), TrigScale),
         RoundDiv(OnCircleCos(radius, RoundDiv(2 * HalfPi * i, n))
                    * Cos(Turn(k, n)), TrigScale),
         RoundDiv(OnCircleCos(radius, RoundDiv(2 * HalfPi * i, n))
                    * Sin(Turn(k, n)), TrigScale))

\* the triple loop, every level guarded by vertices.length <
\* MAX_SPHERE_VERTICES: the first MAX_SPHERE_VERTICES triples (i, j, k) in
\* loop order, i and j below n, k below ceil(n / 2)
SphereVertices(radius, n) ==
    Array([m \in 1..Min2(MAX_SPHERE_VERTICES, n * n * HalfUp(n)) |->
              SphereVertex(radius, n,
                           (m - 1) \div (n * HalfUp(n)),
                           ((m - 1) \div HalfUp(n)) % n,
                           (m - 1) % HalfUp(n))])

\* the inner loop of vertex i: the j > i with dist2 < threshold
SphereRow(vertices, i, threshold) ==
    SelectSeq(Array([d \in 1..(Len(vertices) - 1 - i) |-> <<i, i + d>>]),
              LAMBDA e : Dist2(vertices[e[1] + 1], vertices[e[2] + 1]) < threshold)

\* an inner loop that is not stopped at the edge cap: the ceiling
\* property must tell it from the program's
TakeAll(s, room) == s

\* the first `room` elements of a sequence
Take(s, room) == SubSeq(s, 1, Min2(Len(s), room))

RECURSIVE SphereEdges(_, _, _, _)
\* both loops stop at edges.length = MAX_EDGES
SphereEdges(vertices, i, threshold, edges) ==
    IF i >= Len(vertices) \/ Len(edges) >= MAX_EDGES THEN edges
    ELSE SphereEdges(vertices, i + 1, threshold,
                     edges \o Take(SphereRow(vertices, i, threshold),
                                   MAX_EDGES - Len(edges)))

\* (radius * Math.PI / n * 1.5) ** 2; n = 0 divides by zero to Infinity
SphereThreshold(radius, n) ==
    IF n = 0 THEN Infinity
    ELSE RoundDiv(radius * 2 * HalfPi * 3, 2 * n * AngleScale)
         * RoundDiv(radius * 2 * HalfPi * 3, 2 * n * AngleScale)

Sphere(vertices, threshold) ==
    [name |-> "4D Sphere",
     vertices |-> vertices,
     edges |-> SphereEdges(vertices, 0, threshold, << >>),
     color |-> RGB(239, 83, 80)]      \* '#ef5350'

create4DSphere(radius, detail) ==
    Sphere(SphereVertices(radius, Min2(detail, MAX_SPHERE_DETAIL) * 8),
           SphereThreshold(radius, Min2(detail, MAX_SPHERE_DETAIL) * 8))

\* (1 + Math.sqrt(5)) / 2 and its inverse, in thousandths
GoldenRatio == (CoordScale + SqrtOf(5)) \div 2

InverseGolden == RoundDiv(CoordScale * CoordScale, GoldenRatio)

cellVertices ==
    << <<1, 0, 0, 0>>, <<-1, 0, 0, 0>>, <<0, 1, 0, 0>>, <<0, -1, 0, 0>>,
       <<0, 0, 1, 0>>, <<0, 0, -1, 0>>, <<0, 0, 0, 1>>, <<0, 0, 0, -1>> >>

\* the table of golden-ratio coordinates: o = 1, p = phi, q = 1 / phi
GoldenTable(o, p, q) ==
    << <<0, q, o, p>>, <<0, -q, o, p>>, <<0, q, -o, p>>, <<0, q, o, -p>>,
       <<q, 0, p, o>>, <<-q, 0, p, o>>, <<q, 0, -p, o>>, <<q, 0, p, -o>>,
       <<o, p, 0, q>>, <<-o, p, 0, q>>, <<o, -p, 0, q>>, <<o, p, 0, -q>>,
       <<p, o, q, 0>>, <<-p, o, q, 0>>, <<p, -o, q, 0>>, <<p, o, -q, 0>>,
       <<q, o, 0, p>>, <<q, -o, 0, p>>, <<-q, o, 0, p>>, <<q, o, 0, -p>>,
       <<o, 0, p, q>>, <<-o, 0, p, q>>, <<o, 0, -p, q>>, <<o, 0, p, -q>> >>

goldenVertices == GoldenTable(CoordScale, GoldenRatio, InverseGolden)

\* the 8 scaled cell vertices, then the 24 normalized golden ones
Vertices600(scale) ==
    Array([n \in 1..32 |->
        IF n <= 8
        THEN vec4(cellVertices[n][1] * scale, cellVertices[n][2] * scale,
                  cellVertices[n][3] * scale, cellVertices[n][4] * scale)
        ELSE Normalized(goldenVertices[n - 8], Norm(goldenVertices[n - 8]), scale)])

\* |dist2 - targetDist2| < tolerance, tolerance 0.3
Edges600(vertices, targetDist2) ==
    EdgesWhere(vertices,
               LAMBDA a, b : Abs(Dist2(a, b) - targetDist2) * 10
                                < 3 * CoordScale * CoordScale)

Shape600(vertices, targetEdgeLength) ==
    [name |-> "600-Cell (Subset)",
     vertices |-> vertices,
     edges |-> Edges600(vertices, targetEdgeLength * targetEdgeLength),
     color |-> RGB(142, 36, 170)]     \* '#8e24aa'

create600Cell(size) ==
    Shape600(Vertices600(size \div 2),
             RoundDiv((size \div 2) * CoordScale,
                      RoundDiv(GoldenRatio * GoldenRatio, CoordScale)))

\* the corner at angle 2 * pi * k / n of the polygon in the XY plane
\* (first = TRUE) or in the ZW plane
Corner(s, k, n, first) ==
    IF first
    THEN vec4(OnCircleCos(s, Turn(k, n)), OnCircleSin(s, Turn(k, n)), 0, 0)
    ELSE vec4(0, 0, OnCircleCos(s, Turn(k, n)), OnCircleSin(s, Turn(k, n)))

\* the Cartesian product of two polygons with n corners each
Product(poly1, poly2, n) ==
    Array([m \in 1..(n * n) |->
        vec4(poly1[((m - 1) \div n) + 1][1] + poly2[((m - 1) % n) + 1][1],
             poly1[((m - 1) \div n) + 1][2] + poly2[((m - 1) % n) + 1][2],
             poly1[((m - 1) \div n) + 1][3] + poly2[((m - 1) % n) + 1][3],
             poly1[((m - 1) \div n) + 1][4] + poly2[((m - 1) % n) + 1][4])])

\* an edge test without the wraparound cases: the count and adjacency
\* properties must tell it from the program's
ProductAdjacentNoWrap(i1, j1, i2, j2, last) ==
    \/ i1 = i2 /\ Abs(j1 - j2) = 1
    \/ j1 = j2 /\ Abs(i1 - i2) = 1

\* the edge test of the duoprisms on (i1, j1) and (i2, j2), with
\* last = n - 1 the index that wraps around to 0
ProductAdjacent(i1, j1, i2, j2, last) ==
    \/ i1 = i2 /\ Abs(j1 - j2) = 1
    \/ j1 = j2 /\ Abs(i1 - i2) = 1
    \/ i1 = i2 /\ j1 = 0 /\ j2 = last
    \/ i1 = i2 /\ j1 = last /\ j2 = 0
    \/ j1 = j2 /\ i1 = 0 /\ i2 = last
    \/ j1 = j2 /\ i1 = last /\ i2 = 0

ProductEdges(n) ==
    SelectSeq(LoopPairs(n * n),
              LAMBDA e : ProductAdjacent(e[1] \div n, e[1] % n,
                                         e[2] \div n, e[2] % n, n - 1))

createDuoprism33(size) ==
    [name |-> "3,3-Duoprism",
     vertices |-> Product(<<Corner(size, 0, 3, TRUE), Corner(size, 1, 3, TRUE),
                            Corner(size, 2, 3, TRUE)>>,
                          <<Corner(size, 0, 3, FALSE), Corner(size, 1, 3, FALSE),
                            Corner(size, 2, 3, FALSE)>>, 3),
     edges |-> ProductEdges(3),
     color |-> RGB(38, 198, 218)]     \* '#26c6da'

Duoprism44(s) ==
    [name |-> "4,4-Duoprism",
     vertices |-> Product(<<vec4(s, s, 0, 0), vec4(s, -s, 0, 0),
                            vec4(-s, -s, 0, 0), vec4(-s, s, 0, 0)>>,
                          <<vec4(0, 0, s, s), vec4(0, 0, s, -s),
                            vec4(0, 0, -s, -s), vec4(0, 0, -s, s)>>, 4),
     edges |-> ProductEdges(4),
     color |-> RGB(102, 187, 106)]    \* '#66bb6a'

createDuoprism44(size) == Duoprism44(size \div 2)

\* every key of the catalog
CatalogKeys ==
    {"tesseract", "16cell", "24cell", "5cell", "torus", "sphere",
     "600cell", "duoprism33", "duoprism44"}

\* the keys whose factory takes the size alone
SizedKeys == CatalogKeys \ {"torus", "sphere"}

\* SHAPE_CATALOG[key].create(size): the size is the first parameter of
\* every factory and the others take their defaults
CatalogCreate(key, size) ==
    CASE key = "tesseract"  -> createTesseract(size)
      [] key = "16cell"     -> create16Cell(size)
      [] key = "24cell"     -> create24Cell(size)
      [] key = "5cell"      -> create5Cell(size)
      [] key = "torus"      -> create4DTorus(size, (4 * CoordScale) \div 10, 16, 16)
      [] key = "sphere"     -> create4DSphere(size, 3)
      [] key = "600cell"    -> create600Cell(size)
      [] key = "duoprism33" -> createDuoprism33(size)
      [] key = "duoprism44" -> createDuoprism44(size)

\* create4DSphere(1): the catalog's sphere
UnitSphere == create4DSphere(1 * CoordScale, 3)

\* SHAPE_CATALOG[key].create(1), for the keys the active shape takes in
\* the model: those of ShapeKeys and those of the tour's steps
SHAPE_CATALOG(key) ==
    CASE key = "tesseract" -> createTesseract(1 * CoordScale)
      [] key = "16cell"    -> create16Cell(1 * CoordScale)
      [] key = "24cell"    -> create24Cell(1 * CoordScale)
      [] key = "5cell"     -> create5Cell(1 * CoordScale)
      [] key = "sphere"    -> UnitSphere

----------------------------------------------------------------------------
(* The shape validation of the stress-test utilities *)

MAX_VERTICES == 1000

LIMIT_MAX_EDGES == 2000

\* seen.has(vertexKey): an earlier vertex with the same coordinates
DuplicateVertex(vertices) ==
    \E b \in 2..Len(vertices) : \E a \in 1..(b - 1) : vertices[a] = vertices[b]

InvalidEdge(shape) ==
    \E e \in 1..Len(shape.edges) :
        \/ shape.edges[e][1] < 0 \/ shape.edges[e][1] >= Len(shape.vertices)
        \/ shape.edges[e][2] < 0 \/ shape.edges[e][2] >= Len(shape.vertices)

SelfLoop(shape) ==
    \E e \in 1..Len(shape.edges) : shape.edges[e][1] = shape.edges[e][2]

\* the kinds of issue runShapeValidation pushes for one shape
ShapeIssues(shape) ==
    {kind \in {"vertices", "edges", "duplicate", "range", "loop"} :
        \/ kind = "vertices"  /\ Len(shape.vertices) > MAX_VERTICES
        \/ kind = "edges"     /\ Len(shape.edges) > LIMIT_MAX_EDGES
        \/ kind = "duplicate" /\ DuplicateVertex(shape.vertices)
        \/ kind = "range"     /\ InvalidEdge(shape)
        \/ kind = "loop"      /\ SelfLoop(shape)}

----------------------------------------------------------------------------
(* store/useStore.ts *)

Planes == {"xy", "xz", "xw", "yz", "yw", "zw"}

ProjectionModes == {"perspective", "orthographic", "stereographic"}

DEFAULT_ROTATION == [p \in Planes |-> 0]

\* xw: 0.3, yw: 0.2
DEFAULT_AUTO_ROTATION ==
    [p \in Planes |-> IF p = "xw" THEN (3 * AngleScale) \div 10
                      ELSE IF p = "yw" THEN (2 * AngleScale) \div 10
                      ELSE 0]

\* create<AppState>(...): the fields the pipeline reads or writes
InitialStore ==
    [activeShape            |-> "tesseract",
     rotation               |-> DEFAULT_ROTATION,
     autoRotation           |-> DEFAULT_AUTO_ROTATION,
     isAutoRotating         |-> TRUE,
     projectionMode         |-> "perspective",
     viewDistance           |-> 3 * CoordScale,
     showVertices           |-> TRUE,
     showEdges              |-> TRUE,
     showSlice              |-> FALSE,
     wSlicePosition         |-> 0,
     wSliceThickness        |-> (3 * CoordScale) \div 10,
     colorByW               |-> TRUE,
     wSlicePositionTarget   |-> 0,
     wSliceThicknessTarget  |-> (3 * CoordScale) \div 10,
     showComparison         |-> FALSE,
     isSliceAnimating       |-> FALSE,
     sliceAnimationSpeed    |-> 1 * UnitScale,
     isTourMode             |-> FALSE,
     tourStep               |-> 0]

\* Math.pow(0.001, delta), tabulated at the frame times the model uses
Pow001(delta) ==
    CASE delta = 0   -> UnitScale
      [] delta = 2   -> (986 * UnitScale) \div 1000
      [] delta = 16  -> (895 * UnitScale) \div 1000
      [] delta = 100 -> (501 * UnitScale) \div 1000
      [] delta = 400 -> (63 * UnitScale) \div 1000

\* updateAnimations(delta): the slice fields (edgeOpacity and vertexSize,
\* which no geometry depends on, are not modelled)
updateAnimations(s, delta) ==
    LET lerpFactor == UnitScale - Pow001(delta)
    IN  [s EXCEPT
           !.wSlicePosition = s.wSlicePosition
               + RoundDiv((s.wSlicePositionTarget - s.wSlicePosition) * lerpFactor,
                          UnitScale),
           !.wSliceThickness = s.wSliceThickness
               + RoundDiv((s.wSliceThicknessTarget - s.wSliceThickness) * lerpFactor,
                          UnitScale)]

\* setWSlicePosition(v)
setWSlicePosition(s, v) ==
    [s EXCEPT !.wSlicePosition = v, !.wSlicePositionTarget = v]

\* setWSliceThickness(v)
setWSliceThickness(s, v) ==
    [s EXCEPT !.wSliceThickness = v, !.wSliceThicknessTarget = v]

----------------------------------------------------------------------------
(* components/Scene4D: constants and module-level pools *)

\* UPDATE_THRESHOLD = 0.001 (rad)
UPDATE_THRESHOLD == AngleScale \div 1000

\* MORPH_SPEED = 2.5 (progress per second)
MORPH_SPEED == (25 * UnitScale) \div 10

\* the 0.01 tolerance of viewDistance, wSlicePosition and wSliceThickness
PropTolerance == CoordScale \div 100

\* if (_rotationMatrixCache.size > 100)
CacheClearAbove == 100

\* PERFORMANCE_CONSTANTS.ROTATION_MATRIX_CACHE_SIZE
ROTATION_MATRIX_CACHE_SIZE == 100

\* the wrap point of the slice scan: if (newPos > 2) set -2
ScanLimit == 2 * CoordScale

\* number.toFixed(3) of an angle: the sign and the thousandths, rounded
\* half away from zero ("-0.000" and "0.000" are different strings)
\* NaN.toFixed(3) is the string "NaN"
\* a key rounded to 2 decimals
ToFixed2(a) ==
    IF IsNaN(a) THEN <<FALSE, NaN>>
    ELSE <<a < 0, RoundDiv(Abs(a) * 100, AngleScale)>>

ToFixed3(a) ==
    IF IsNaN(a) THEN <<FALSE, NaN>>
    ELSE <<a < 0, RoundDiv(Abs(a) * 1000, AngleScale)>>

\* `${totalR.xy.toFixed(3)},${totalR.xz.toFixed(3)},...`
RotKey(totalR) ==
    <<ToFixed3(totalR["xy"]), ToFixed3(totalR["xz"]), ToFixed3(totalR["xw"]),
      ToFixed3(totalR["yz"]), ToFixed3(totalR["yw"]), ToFixed3(totalR["zw"])>>

\* new Map(): no entries
EmptyMap == [k \in {} |-> identity4]

\* a slot of new Array(n) that was never assigned
Hole == <<>>

\* the two Scene4D instances: 1 is App's, 2 is ComparisonMode's
Instances == {1, 2}

NoShape == [name |-> "null", vertices |-> <<>>, edges |-> <<>>, color |-> <<>>]

VARIABLES
    store,                \* the zustand store
    scene,                \* per instance: the refs of Scene4D and the
                          \* scene objects it publishes to
    rotationMatrixCache,  \* _rotationMatrixCache: key -> matrix
    lastTransformCache,   \* _lastTransformCache
    lastOp,               \* history: what the last step was
    hist,                 \* history, per instance: the inputs its last
                          \* tick saw and the integral of the velocities
    inputCount            \* history: how many store actions have run

vars == <<store, scene, rotationMatrixCache, lastTransformCache, lastOp, hist,
          inputCount>>

----------------------------------------------------------------------------
(* Scene4D: what a render builds *)

\* <mesh> of vertex i as React creates it: at the origin, visible, with
\* <meshStandardMaterial color={shape.color}>
FreshMeshes(shape) ==
    [i \in 1..Len(shape.vertices) |->
        [position |-> <<0, 0, 0>>, visible |-> TRUE, color |-> shape.color]]

\* linesGeo: the position attribute, a zero-filled Float32Array
linesGeoPositions(shape) ==
    [e \in 1..Len(shape.edges) |-> << <<0, 0, 0>>, <<0, 0, 0>> >>]

\* linesGeo: the colour attribute, initialised to the shape colour
linesGeoColors(shape) ==
    [e \in 1..Len(shape.edges) |-> <<shape.color, shape.color>>]

\* lastUpdateRef's fields, taken from the values a render captured
Snapshot(cl) ==
    [rotation        |-> cl.rotation,
     projectionMode  |-> cl.projectionMode,
     viewDistance    |-> cl.viewDistance,
     showSlice       |-> cl.showSlice,
     wSlicePosition  |-> cl.wSlicePosition,
     wSliceThickness |-> cl.wSliceThickness,
     colorByW        |-> cl.colorByW]

\* useRef({ ...rotation }): the initial value of the auto-accumulator
InitialRotationRef(cl) == cl.rotation

\* the first render of a Scene4D: the initial values of its refs, its
\* shape and its scene objects
FirstRender(cl) ==
    LET newShape == SHAPE_CATALOG(cl.activeShape)
    IN  [mounted            |-> TRUE,
         rotationRef        |-> InitialRotationRef(cl),
         shapeTransitionRef |-> [progress  |-> 1 * UnitScale,
                                 fromShape |-> NoShape,
                                 toShape   |-> NoShape],
         lastActiveShapeRef |-> cl.activeShape,
         lastUpdateRef      |-> Snapshot(cl),
         shape              |-> newShape,
         meshes             |-> FreshMeshes(newShape),
         linePos            |-> linesGeoPositions(newShape),
         lineCol            |-> linesGeoColors(newShape)]

\* an instance that is not in the tree
Unmounted ==
    [mounted            |-> FALSE,
     rotationRef        |-> DEFAULT_ROTATION,
     shapeTransitionRef |-> [progress  |-> 1 * UnitScale,
                             fromShape |-> NoShape,
                             toShape   |-> NoShape],
     lastActiveShapeRef |-> "null",
     lastUpdateRef      |-> Snapshot(InitialStore),
     shape              |-> NoShape,
     meshes             |-> <<>>,
     linePos            |-> <<>>,
     lineCol            |-> <<>>]

\* the record the shape useMemo stores when the active shape changed
NewTransition(oldShape, newShape) ==
    [progress |-> 0, fromShape |-> oldShape, toShape |-> newShape]

\* a re-render after the store changed: the shape useMemo (dependency
\* activeShape), linesGeo (dependencies edge count, activeShape, colour)
\* and the vertex meshes (keys `vert-${activeShape}-${i}`) are rebuilt
\* when the active shape differs; every other prop is unchanged, so the
\* reconciler touches no scene object
ReRender(sc, cl) ==
    IF sc.mounted /\ sc.lastActiveShapeRef # cl.activeShape
    THEN LET newShape == SHAPE_CATALOG(cl.activeShape)
             oldShape == SHAPE_CATALOG(sc.lastActiveShapeRef)
         IN  [sc EXCEPT !.shape = newShape,
                        !.shapeTransitionRef = NewTransition(oldShape, newShape),
                        !.lastActiveShapeRef = cl.activeShape,
                        !.meshes = FreshMeshes(newShape),
                        !.linePos = linesGeoPositions(newShape),
                        !.lineCol = linesGeoColors(newShape)]
    ELSE sc

----------------------------------------------------------------------------
(* Scene4D.useFrame *)

\* progress + delta * MORPH_SPEED, at most 1
\* an advance that does not stop at 1: the lifecycle property must tell
\* it from the program's
AdvanceProgressUnclamped(progress, delta) ==
    progress + RoundDiv(delta * MORPH_SPEED, TimeScale)

\* the same at 2 per second
AdvanceProgressSlowly(progress, delta) ==
    Min2(1 * UnitScale, progress + RoundDiv(delta * 2 * UnitScale, TimeScale))

AdvanceProgress(progress, delta) ==
    Min2(1 * UnitScale, progress + RoundDiv(delta * MORPH_SPEED, TimeScale))

\* rotationRef.current[p] += autoRotation[p] * delta on the six planes
Accumulate(rotationRef, autoRotation, delta) ==
    [p \in Planes |->
        IF IsNaN(rotationRef[p]) \/ IsNaN(autoRotation[p]) THEN NaN
        ELSE rotationRef[p] + RoundDiv(autoRotation[p] * delta, TimeScale)]

\* sliceAnimationSpeed * delta * 2
ScanStep(sliceAnimationSpeed, delta) ==
    RoundDiv(RoundDiv(sliceAnimationSpeed * delta * 2, TimeScale) * CoordScale,
             UnitScale)

\* a scan that never returns to -2: the scan property must tell it from
\* the program's
ScanTargetNoWrap(newPos) == newPos

\* the position the scan stores: newPos, or -2 when newPos > 2
ScanTarget(newPos) == IF newPos > ScanLimit THEN -ScanLimit ELSE newPos

\* r[p] + rotation[p] on the six planes
TotalRotation(rotationRef, rotation) ==
    [p \in Planes |->
        IF IsNaN(rotationRef[p]) \/ IsNaN(rotation[p]) THEN NaN
        ELSE rotationRef[p] + rotation[p]]

\* some plane's manual angle is more than UPDATE_THRESHOLD from last's
\* a check that compares the slider against nothing
ManualRotationIgnored(rotation, last) == FALSE

ManualRotationChanged(rotation, last) ==
    \E p \in Planes :
        /\ ~IsNaN(rotation[p])
        /\ ~IsNaN(last.rotation[p])
        /\ Abs(rotation[p] - last.rotation[p]) > UPDATE_THRESHOLD

\* the other properties the dirty check compares
PropsChanged(cl, last) ==
    \/ last.projectionMode # cl.projectionMode
    \/ Abs(last.viewDistance - cl.viewDistance) > PropTolerance
    \/ last.showSlice # cl.showSlice
    \/ Abs(last.wSlicePosition - cl.wSlicePosition) > PropTolerance
    \/ Abs(last.wSliceThickness - cl.wSliceThickness) > PropTolerance
    \/ last.colorByW # cl.colorByW

\* needsUpdate as the frame has it at its early return
\* a dirty check that forgets the auto-rotation: the properties of the
\* skip path must tell it from the program's
NeedsUpdateWithoutAuto(morphing, auto, scanning, cl, last) ==
    \/ morphing
    \/ scanning
    \/ ManualRotationChanged(cl.rotation, last)
    \/ PropsChanged(cl, last)

NeedsUpdate(morphing, auto, scanning, cl, last) ==
    \/ morphing
    \/ auto
    \/ scanning
    \/ ManualRotationChanged(cl.rotation, last)
    \/ PropsChanged(cl, last)

\* project(p): by projection mode
project(cl, p) ==
    IF cl.projectionMode = "orthographic"
    THEN projectOrthographic4Dto3D(p)
    ELSE IF cl.projectionMode = "stereographic"
    THEN projectStereographic4Dto3D(p, cl.viewDistance)
    ELSE projectPerspective4Dto3D(p, cl.viewDistance)

\* composeRotations(rotateXY(totalR.xy), ..., rotateZW(totalR.zw))
ComposeTotal(totalR) ==
    composeRotations(<<rotateXY(totalR["xy"]), rotateXZ(totalR["xz"]),
                       rotateXW(totalR["xw"]), rotateYZ(totalR["yz"]),
                       rotateYW(totalR["yw"]), rotateZW(totalR["zw"])>>)

\* the cache after a miss: cleared first when it holds more than 100
CacheInsert(cache, rotKey, rotMatrix) ==
    LET base == IF Cardinality(DOMAIN cache) > CacheClearAbove
                THEN EmptyMap ELSE cache
    IN  (rotKey :> rotMatrix) @@ base

\* t * t * (3 - 2 * t)
SmoothStep(t) == RoundDiv(t * t * (3 * UnitScale - 2 * t), UnitScale * UnitScale)

\* a morph that starts every vertex at its destination: the morph
\* property must tell it from the program's
FromVertexAlwaysTo(fromShape, toShape, i) == toShape.vertices[i]

\* fromShape.vertices[i] || toV   (i is 1-based here)
FromVertex(fromShape, toShape, i) ==
    IF i <= Len(fromShape.vertices) THEN fromShape.vertices[i]
    ELSE toShape.vertices[i]

\* target[k] = fromV[k] + (toV[k] - fromV[k]) * easeT
MorphVertex(fromV, toV, easeT) ==
    [k \in 1..4 |-> fromV[k] + RoundDiv((toV[k] - fromV[k]) * easeT, UnitScale)]

\* the morph loop: _lastTransformCache.vertices afterwards.  The buffer is
\* reallocated when its length differs, a hole gets vec4(0,0,0,0), and
\* every slot's four components are then overwritten in place; the slots
\* are arrays the pipeline allocated (vec4 or mulMatVec4 results), never a
\* shape's vertex, so the overwrite reaches no Polytope.
MorphVertices(tr, bufferVertices) ==
    LET n == Len(tr.toShape.vertices)
        easeT == SmoothStep(tr.progress)
    IN  Array([i \in 1..n |->
                  MorphVertex(FromVertex(tr.fromShape, tr.toShape, i),
                              tr.toShape.vertices[i], easeT)])

\* Math.abs(w - wSlicePosition) < wSliceThickness
InSlice(cl, w) == ~IsNaN(w) /\ Abs(w - cl.wSlicePosition) < cl.wSliceThickness

\* the vertex loop's visibility
VertexVisible(cl, w) ==
    IF cl.showSlice THEN cl.showVertices /\ InSlice(cl, w) ELSE cl.showVertices

\* an edge rule that wants both endpoints inside the band: the edge
\* properties must tell it from the program's
EdgeVisibleBothInside(cl, w1, w2) ==
    IF cl.showSlice THEN cl.showEdges /\ InSlice(cl, w1) /\ InSlice(cl, w2)
    ELSE cl.showEdges

\* the edge loop's visibility
EdgeVisible(cl, w1, w2) ==
    IF cl.showSlice THEN cl.showEdges /\ (InSlice(cl, w1) \/ InSlice(cl, w2))
    ELSE cl.showEdges

RECURSIVE SeqMin(_, _), SeqMax(_, _)
\* if (w < minW) minW = w, over the loop from Infinity; a NaN w fails
\* the comparison
SeqMin(ws, k) ==
    IF k = 0 THEN Infinity
    ELSE IF IsNaN(ws[k]) THEN SeqMin(ws, k - 1)
    ELSE Min2(ws[k], SeqMin(ws, k - 1))

\* if (w > maxW) maxW = w, over the loop from -Infinity
SeqMax(ws, k) ==
    IF k = 0 THEN -Infinity
    ELSE IF IsNaN(ws[k]) THEN SeqMax(ws, k - 1)
    ELSE Max2(ws[k], SeqMax(ws, k - 1))

\* rotMatrix: _rotationMatrixCache.get(rotKey), or the composed matrix
\* on a miss
LookupOrCompose(cache, totalR) ==
    IF RotKey(totalR) \in DOMAIN cache THEN cache[RotKey(totalR)]
    ELSE ComposeTotal(totalR)

\* _rotationMatrixCache after the lookup
CacheAfterLookup(cache, totalR, rotMatrix) ==
    IF RotKey(totalR) \in DOMAIN cache THEN cache
    ELSE CacheInsert(cache, RotKey(totalR), rotMatrix)

\* the morph branch is taken
Morphs(tr) == tr.progress < 1 * UnitScale /\ tr.fromShape # NoShape

\* currentVertices
CurrentVertices(sc, ltc) ==
    IF Morphs(sc.shapeTransitionRef)
    THEN MorphVertices(sc.shapeTransitionRef, ltc.vertices)
    ELSE sc.shape.vertices

\* mulMatVec4(rotMatrix, v) for every vertex of the loop
TransformVertices(rotMatrix, currentVertices) ==
    Array([i \in 1..Len(currentVertices) |->
              mulMatVec4(rotMatrix, currentVertices[i])])

\* projected[i] after the loop (the array is reallocated when its length
\* differs and every element is then written)
ProjectVertices(cl, transformedV) ==
    Array([i \in 1..Len(transformedV) |-> project(cl, transformedV[i])])

\* wValues[i] after the loop
WValues(transformedV) ==
    Array([i \in 1..Len(transformedV) |-> transformedV[i][4]])

\* _lastTransformCache.vertices after the frame: the morph buffer while
\* morphing (transformed is then currentVertices itself, so nothing is
\* written back); otherwise the transformed vertices when the buffer has
\* the shape's length, and the buffer as it was when it has not
BufferVertices(sc, ltc, currentVertices, transformedV) ==
    IF Morphs(sc.shapeTransitionRef) THEN currentVertices
    ELSE IF Len(ltc.vertices) = Len(currentVertices) THEN transformedV
    ELSE ltc.vertices

\* Whose array a slot of _lastTransformCache.vertices is: PipelineOwned
\* for an array the pipeline allocated itself (vec4(0, 0, 0, 0) of the
\* morph loop, a mulMatVec4 result of the transform loop), j > 0 for the
\* array that is vertex k of the shape object of instance j.
PipelineOwned == 0

\* a hole filler that puts the TO shape's own vertex array in the slot:
\* the immutability property must tell it from the program's
HoleFillAliasesShape(inst) == inst

\* if (!_lastTransformCache.vertices[i])
\*     _lastTransformCache.vertices[i] = vec4(0, 0, 0, 0)
HoleFill(inst) == PipelineOwned

\* the owners of the slots of _lastTransformCache.vertices after the
\* frame of instance inst over n vertices
SlotOwners(inst, sc, ltc, n) ==
    IF Morphs(sc.shapeTransitionRef)
    THEN IF Len(ltc.owners) = n THEN ltc.owners
         ELSE [k \in 1..n |-> HoleFill(inst)]
    ELSE IF Len(ltc.vertices) = n THEN [k \in 1..n |-> PipelineOwned]
    ELSE ltc.owners

\* target[0..3] = ... of the morph loop, seen from the shape objects: a
\* slot that is a shape's own vertex array takes the write into the shape
WriteThrough(scn, owners, morphs, currentVertices) ==
    [j \in Instances |->
        IF morphs /\ scn[j].mounted
        THEN [scn[j] EXCEPT
                !.shape.vertices =
                    [k \in 1..Len(@) |->
                        IF k <= Len(owners) /\ owners[k] = j
                        THEN currentVertices[k] ELSE @[k]]]
        ELSE scn[j]]

\* the vertex loop
UpdateMeshes(sc, cl, projected, wValues, minW, maxW) ==
    [i \in 1..Len(sc.meshes) |->
        IF i <= Len(projected)
        THEN [position |-> projected[i],
              visible  |-> VertexVisible(cl, wValues[i]),
              color    |-> IF VertexVisible(cl, wValues[i]) /\ cl.colorByW
                           THEN wToColorCached(wValues[i], minW, maxW)
                           ELSE sc.meshes[i].color]
        ELSE sc.meshes[i]]

\* the edge loop: the position attribute
UpdateLinePositions(edges, cl, projected, wValues) ==
    [e \in 1..Len(edges) |->
        IF EdgeVisible(cl, wValues[edges[e][1] + 1], wValues[edges[e][2] + 1])
        THEN <<projected[edges[e][1] + 1], projected[edges[e][2] + 1]>>
        ELSE << <<0, 0, 0>>, <<0, 0, 0>> >>]

\* the edge loop: the colour attribute
UpdateLineColors(edges, lineCol, cl, wValues, minW, maxW) ==
    [e \in 1..Len(edges) |->
        IF cl.colorByW
        THEN <<wToColorCached(wValues[edges[e][1] + 1], minW, maxW),
               wToColorCached(wValues[edges[e][2] + 1], minW, maxW)>>
        ELSE lineCol[e]]

\* what the frame leaves behind once the loop's arrays are known
Publish(sc, cl, ltc, currentVertices, transformedV, projected, wValues, minW, maxW) ==
    [scene |-> [sc EXCEPT
                  !.lastUpdateRef = Snapshot(cl),
                  !.meshes = UpdateMeshes(sc, cl, projected, wValues, minW, maxW),
                  !.linePos = UpdateLinePositions(sc.shape.edges, cl, projected, wValues),
                  !.lineCol = UpdateLineColors(sc.shape.edges, sc.lineCol, cl,
                                               wValues, minW, maxW)],
     ltc   |-> [vertices  |-> BufferVertices(sc, ltc, currentVertices, transformedV),
                owners    |-> ltc.owners,
                projected |-> projected,
                wValues   |-> wValues,
                minW      |-> minW,
                maxW      |-> maxW]]

\* the loops run with the range the buffers still hold from the tick before
PublishStaleRange(sc, cl, ltc, currentVertices, transformedV, projected, wValues) ==
    Publish(sc, cl, ltc, currentVertices, transformedV, projected, wValues,
            ltc.minW, ltc.maxW)

PublishW(sc, cl, ltc, currentVertices, transformedV, projected, wValues) ==
    Publish(sc, cl, ltc, currentVertices, transformedV, projected, wValues,
            SeqMin(wValues, Len(wValues)), SeqMax(wValues, Len(wValues)))

PublishT(sc, cl, ltc, currentVertices, transformedV) ==
    PublishW(sc, cl, ltc, currentVertices, transformedV,
             ProjectVertices(cl, transformedV), WValues(transformedV))

\* the frame after its early return: lastUpdateRef, the morph, the
\* transform/projection loop, the vertex loop and the edge loop.  sc is
\* the instance with this frame's progress and accumulators, cl the
\* values the frame's closure captured, rotMatrix the looked-up matrix.
Recompute(sc, cl, ltc, rotMatrix, currentVertices) ==
    PublishT(sc, cl, ltc, currentVertices,
             TransformVertices(rotMatrix, currentVertices))

\* what a frame saw, for the history
Seen(cl, totalR) ==
    [totalR          |-> totalR,
     projectionMode  |-> cl.projectionMode,
     viewDistance    |-> cl.viewDistance,
     showSlice       |-> cl.showSlice,
     wSlicePosition  |-> cl.wSlicePosition,
     wSliceThickness |-> cl.wSliceThickness,
     known           |-> TRUE]

\* the part of the frame before the dirty check: the shape transition,
\* the auto-rotation and the slice scan
BeforeCheck(sc, cl, st1, delta) ==
    LET morphing == sc.shapeTransitionRef.progress < 1 * UnitScale
        auto == cl.isAutoRotating
        scanning == st1.isSliceAnimating /\ cl.showSlice
        newPos == cl.wSlicePosition + ScanStep(st1.sliceAnimationSpeed, delta)
    IN  [morphing |-> morphing,
         auto     |-> auto,
         scanning |-> scanning,
         scene    |-> [sc EXCEPT
                         !.shapeTransitionRef.progress =
                             IF morphing THEN AdvanceProgress(@, delta) ELSE @,
                         !.rotationRef =
                             IF auto THEN Accumulate(@, cl.autoRotation, delta) ELSE @],
         store    |-> IF scanning THEN setWSlicePosition(st1, ScanTarget(newPos))
                      ELSE st1]

\* _lastTransformCache as the module creates it
EmptyTransformCache ==
    [vertices |-> <<>>, owners |-> <<>>, projected |-> <<>>,
     wValues |-> <<>>, minW |-> 0, maxW |-> 0]

\* History: the instance as it would be with the module-level pools to
\* itself.  It is followed from the moment a second instance is mounted
\* (until then the instance is alone).
NotFollowed ==
    [followed |-> FALSE, scene |-> Unmounted, cache |-> EmptyMap,
     ltc |-> EmptyTransformCache]

Followed(sc, cache, ltc) ==
    [followed |-> TRUE, scene |-> sc, cache |-> cache, ltc |-> ltc]

\* the frame of the instance alone, after its dirty check said yes
AlonePublished(alone, totalR, rotMatrix, out) ==
    Followed(out.scene, CacheAfterLookup(alone.cache, totalR, rotMatrix), out.ltc)

AloneRecompute(alone, cl, pre, totalR, rotMatrix) ==
    AlonePublished(alone, totalR, rotMatrix,
                   Recompute(pre.scene, cl, alone.ltc, rotMatrix,
                             CurrentVertices(pre.scene, alone.ltc)))

AloneChecked(alone, cl, pre, totalR) ==
    IF NeedsUpdate(pre.morphing, pre.auto, pre.scanning, cl,
                   alone.scene.lastUpdateRef)
    THEN AloneRecompute(alone, cl, pre, totalR,
                        LookupOrCompose(alone.cache, totalR))
    ELSE [alone EXCEPT !.scene = pre.scene]

AloneFrame(alone, cl, pre) ==
    AloneChecked(alone, cl, pre, TotalRotation(pre.scene.rotationRef, cl.rotation))

\* the same frame, with the same inputs, of the instance alone
AloneTick(alone, cl, st1, delta) ==
    IF alone.followed
    THEN AloneFrame(alone, cl, BeforeCheck(alone.scene, cl, st1, delta))
    ELSE alone

\* the re-render of the instance alone
AloneReRender(h, cl) ==
    [i \in Instances |->
        IF h[i].alone.followed
        THEN [h[i] EXCEPT !.alone.scene = ReRender(@, cl)]
        ELSE h[i]]

\* useFrame((state, delta) => ...) of instance i.  The closure holds the
\* store values of the instance's last render, which React has brought up
\* to date with the store before the frame runs.
\* history of the module-level cache, kept with the first instance's: the
\* total rotation each key was last composed at
NoteComposed(h, miss, rotKey, totalR) ==
    IF miss
    THEN [h EXCEPT ![1].composedAt = (rotKey :> totalR) @@ @]
    ELSE h

Tick(i, delta) ==
    /\ scene[i].mounted
    /\ \E cl \in {store} :
       \E pre \in {BeforeCheck(scene[i], cl, updateAnimations(store, delta), delta)} :
       \E totalR \in {TotalRotation(pre.scene.rotationRef, cl.rotation)} :
       \E needsUpdate \in {NeedsUpdate(pre.morphing, pre.auto, pre.scanning, cl,
                                       scene[i].lastUpdateRef)} :
          /\ store' = pre.store
          /\ UNCHANGED inputCount
          /\ hist' = NoteComposed(
                        [hist EXCEPT ![i] =
                            [seen    |-> Seen(cl, totalR),
                             autoSum |-> IF pre.auto
                                         THEN Accumulate(@.autoSum, cl.autoRotation, delta)
                                         ELSE @.autoSum,
                             resetPending |-> @.resetPending /\ ~needsUpdate,
                             composedAt |-> @.composedAt,
                             morphTicks |-> IF pre.morphing /\ delta > 0
                                            THEN @.morphTicks + 1
                                            ELSE @.morphTicks,
                             alone |-> AloneTick(@.alone, cl,
                                                 updateAnimations(store, delta),
                                                 delta)]],
                        needsUpdate /\ RotKey(totalR) \notin DOMAIN rotationMatrixCache,
                        RotKey(totalR), totalR)
          /\ IF needsUpdate
             THEN \E rotMatrix \in {LookupOrCompose(rotationMatrixCache, totalR)} :
                  \E currentVertices \in {CurrentVertices(pre.scene, lastTransformCache)} :
                  \E out \in {Recompute(pre.scene, cl, lastTransformCache,
                                        rotMatrix, currentVertices)} :
                  \E owners \in {SlotOwners(i, pre.scene, lastTransformCache,
                                            Len(currentVertices))} :
                     /\ scene' = WriteThrough([scene EXCEPT ![i] = out.scene],
                                              owners,
                                              Morphs(pre.scene.shapeTransitionRef),
                                              currentVertices)
                     /\ rotationMatrixCache' =
                            CacheAfterLookup(rotationMatrixCache, totalR, rotMatrix)
                     /\ lastTransformCache' = [out.ltc EXCEPT !.owners = owners]
                     /\ lastOp' = [op |-> "tick", inst |-> i, delta |-> delta,
                                   recomputed |-> TRUE,
                                   morphing |-> pre.morphing, auto |-> pre.auto,
                                   scanning |-> pre.scanning,
                                   afterReset |-> hist[i].resetPending,
                                   cl |-> cl,
                                   totalR |-> totalR,
                                   rotMatrix |-> rotMatrix,
                                   currentVertices |-> currentVertices]
             ELSE /\ scene' = [scene EXCEPT ![i] = pre.scene]
                  /\ UNCHANGED <<rotationMatrixCache, lastTransformCache>>
                  /\ lastOp' = [op |-> "tick", inst |-> i, delta |-> delta,
                                recomputed |-> FALSE,
                                morphing |-> pre.morphing, auto |-> pre.auto,
                                scanning |-> pre.scanning,
                                afterReset |-> hist[i].resetPending,
                                cl |-> cl,
                                totalR |-> totalR,
                                rotMatrix |-> identity4,
                                currentVertices |-> <<>>]

----------------------------------------------------------------------------
(* The store's actions, each followed by the re-render it causes *)

InputOp == [op |-> "input"]

NoSeen ==
    [totalR          |-> DEFAULT_ROTATION,
     projectionMode  |-> "perspective",
     viewDistance    |-> 0,
     showSlice       |-> FALSE,
     wSlicePosition  |-> 0,
     wSliceThickness |-> 0,
     known           |-> FALSE]

NoHistory ==
    [seen |-> NoSeen, autoSum |-> DEFAULT_ROTATION, resetPending |-> FALSE,
     composedAt |-> [k \in {} |-> DEFAULT_ROTATION], morphTicks |-> 0,
     alone |-> NotFollowed]

\* the history once resetRotation (pending) or setRotation (not pending)
\* has run: a reset is pending until an instance's next recomputing tick
MarkReset(h, pending) ==
    [i \in Instances |-> [h[i] EXCEPT !.resetPending = pending]]

\* the slot owners once the instances in `gone` have dropped their shape
\* object: an array only the buffer still holds is the pipeline's
ReleaseOwners(ltc, gone) ==
    [ltc EXCEPT !.owners = [k \in 1..Len(@) |->
                               IF @[k] \in gone THEN PipelineOwned ELSE @[k]]]

\* set(partial) and the re-render of every mounted Scene4D
StoreStepNoting(newStore, newHist) ==
    /\ store' = newStore
    /\ scene' = [i \in Instances |-> ReRender(scene[i], newStore)]
    /\ lastTransformCache' =
          ReleaseOwners(lastTransformCache,
                        {i \in Instances :
                            /\ scene[i].mounted
                            /\ scene[i].lastActiveShapeRef # newStore.activeShape})
    /\ lastOp' = InputOp
    /\ inputCount' = inputCount + 1
    /\ hist' = AloneReRender(newHist, newStore)
    /\ UNCHANGED rotationMatrixCache

StoreStep(newStore) == StoreStepNoting(newStore, hist)

\* the history once the active shape is set: a change starts a transition
\* in every mounted instance, whose ticks are counted from zero
MarkTransition(h, changed) ==
    [i \in Instances |-> [h[i] EXCEPT !.morphTicks = IF changed THEN 0 ELSE @]]

SetActiveShape(shape) ==
    StoreStepNoting([store EXCEPT !.activeShape = shape],
                    MarkTransition(hist, store.activeShape # shape))

SetRotation(plane, value) ==
    StoreStepNoting([store EXCEPT !.rotation[plane] = value], MarkReset(hist, FALSE))

ResetRotation ==
    StoreStepNoting([store EXCEPT !.rotation = DEFAULT_ROTATION], MarkReset(hist, TRUE))

SetAutoRotation(plane, value) ==
    StoreStep([store EXCEPT !.autoRotation[plane] = value])

ToggleAutoRotation ==
    StoreStep([store EXCEPT !.isAutoRotating = ~store.isAutoRotating])

SetProjectionMode(mode) ==
    StoreStep([store EXCEPT !.projectionMode = mode])

SetViewDistance(d) ==
    StoreStep([store EXCEPT !.viewDistance = d])

ToggleShowVertices ==
    StoreStep([store EXCEPT !.showVertices = ~store.showVertices])

ToggleShowEdges ==
    StoreStep([store EXCEPT !.showEdges = ~store.showEdges])

ToggleShowSlice ==
    StoreStep([store EXCEPT !.showSlice = ~store.showSlice])

ToggleColorByW ==
    StoreStep([store EXCEPT !.colorByW = ~store.colorByW])

SetWSlicePosition(v) ==
    StoreStep(setWSlicePosition(store, v))

SetWSliceThickness(v) ==
    StoreStep(setWSliceThickness(store, v))

StartSliceAnimation ==
    StoreStep([store EXCEPT !.isSliceAnimating = TRUE])

StopSliceAnimation ==
    StoreStep([store EXCEPT !.isSliceAnimating = FALSE])

SetSliceAnimationSpeed(speed) ==
    StoreStep([store EXCEPT !.sliceAnimationSpeed = speed])

\* the histories once the comparison view is opened (the main instance
\* stops being alone, the new one starts with pools as the module
\* creates them) or closed
AloneAtToggle(h, sc1, cache, ltc, newStore) ==
    IF newStore.showComparison
    THEN [h EXCEPT ![1].alone = IF @.followed THEN @ ELSE Followed(sc1, cache, ltc),
                   ![2] = [NoHistory EXCEPT
                             !.alone = Followed(FirstRender(newStore), EmptyMap,
                                                EmptyTransformCache)]]
    ELSE [h EXCEPT ![2] = NoHistory]

\* toggleComparison: ComparisonMode mounts its own <Scene4D /> when
\* showComparison becomes true and unmounts it when it becomes false
ToggleComparison ==
    LET newStore == [store EXCEPT !.showComparison = ~store.showComparison]
    IN  /\ store' = newStore
        /\ scene' = [scene EXCEPT ![2] = IF newStore.showComparison
                                         THEN FirstRender(newStore)
                                         ELSE Unmounted]
        /\ hist' = AloneAtToggle(hist, scene[1], rotationMatrixCache,
                                  lastTransformCache, newStore)
        /\ lastOp' = [op |-> "mount", inst |-> 2]
        /\ inputCount' = inputCount + 1
        /\ lastTransformCache' = ReleaseOwners(lastTransformCache, {2})
        /\ UNCHANGED rotationMatrixCache

----------------------------------------------------------------------------
(* Specifications *)

\* App renders <Scene4D /> with the store as created; the module-level
\* pools are empty
Init ==
    /\ store = InitialStore
    /\ scene = [i \in Instances |-> IF i = 1 THEN FirstRender(InitialStore)
                                    ELSE Unmounted]
    /\ rotationMatrixCache = EmptyMap
    /\ lastTransformCache = [vertices |-> <<>>, owners |-> <<>>,
                             projected |-> <<>>,
                             wValues |-> <<>>, minW |-> 0, maxW |-> 0]
    /\ lastOp = [op |-> "init"]
    /\ hist = [i \in Instances |-> NoHistory]
    /\ inputCount = 0

\* frame times, in milliseconds
DeltaTimes == {100}

\* the accumulators stay within this many angle units
MaxAcc == 600

\* at most this many store actions run
MaxInputs == 3

AccWithin(i, bound) ==
    \A p \in Planes :
        IsNaN(scene[i].rotationRef[p]) \/ Abs(scene[i].rotationRef[p]) <= bound

InputsWithin(bound) == inputCount <= bound

RotationInputs == {0, HalfPi}

SlicePositionInputs == {0, CoordScale \div 2}

Frame ==
    \E delta \in DeltaTimes : Tick(1, delta) /\ AccWithin(1, MaxAcc)'

TurnXW ==
    \E value \in RotationInputs : SetRotation("xw", value) /\ InputsWithin(MaxInputs)'

PauseResume == ToggleAutoRotation /\ InputsWithin(MaxInputs)'

StopXW == SetAutoRotation("xw", 0) /\ InputsWithin(MaxInputs)'

StopYW == SetAutoRotation("yw", 0) /\ InputsWithin(MaxInputs)'

Orthographic == SetProjectionMode("orthographic") /\ InputsWithin(MaxInputs)'

VerticesOnOff == ToggleShowVertices /\ InputsWithin(MaxInputs)'

EdgesOnOff == ToggleShowEdges /\ InputsWithin(MaxInputs)'

SliceOnOff == ToggleShowSlice /\ InputsWithin(MaxInputs)'

ColorOnOff == ToggleColorByW /\ InputsWithin(MaxInputs)'

MoveSlice ==
    \E v \in SlicePositionInputs : SetWSlicePosition(v) /\ InputsWithin(MaxInputs)'

Next ==
    \/ Frame
    \/ TurnXW
    \/ PauseResume
    \/ StopXW
    \/ StopYW
    \/ Orthographic
    \/ VerticesOnOff
    \/ EdgesOnOff
    \/ SliceOnOff
    \/ ColorOnOff
    \/ MoveSlice

Spec == Init /\ [][Next]_vars

----------------------------------------------------------------------------
(* Properties of the dirty check, visibility and colour (under Spec) *)

\* the last step was a frame of some instance
Ticked == lastOp.op = "tick"

\* the frame that just ran saw, within the dirty check's tolerances, the
\* inputs that the instance's frame before it saw
SameInputs(a, b) ==
    /\ \A p \in Planes : Abs(a.totalR[p] - b.totalR[p]) <= UPDATE_THRESHOLD
    /\ a.projectionMode = b.projectionMode
    /\ Abs(a.viewDistance - b.viewDistance) <= PropTolerance
    /\ a.showSlice = b.showSlice
    /\ Abs(a.wSlicePosition - b.wSlicePosition) <= PropTolerance
    /\ Abs(a.wSliceThickness - b.wSliceThickness) <= PropTolerance

StepIsQuietTick(i) ==
    /\ lastOp'.op = "tick"
    /\ lastOp'.inst = i
    /\ hist[i].seen.known
    /\ SameInputs(hist[i].seen, hist'[i].seen)
    /\ ~lastOp'.morphing
    /\ ~lastOp'.scanning

\* C1: a tick whose total rotation, projection config and slice config
\* are what the instance's previous tick saw (within tolerance), with no
\* shape transition and no slice scan active, skips the pass, whatever
\* the auto-rotation flag and velocities are.
C1_QuietTickSkips ==
    [][\A i \in Instances : StepIsQuietTick(i) => ~lastOp'.recomputed]_vars

\* C2: a tick that takes the skip path leaves every scene object, the
\* refs of the instance (snapshot, accumulators, transition), the
\* transform buffers and the rotation-matrix cache as they were.
C2_SkipChangesNothing ==
    [][(lastOp'.op = "tick" /\ ~lastOp'.recomputed)
          => /\ scene' = scene
             /\ lastTransformCache' = lastTransformCache
             /\ rotationMatrixCache' = rotationMatrixCache]_vars

\* a skipped tick has happened after a recomputing one, so there are
\* published outputs and buffers for it to leave alone
C2_Witness ==
    /\ Ticked
    /\ ~lastOp.recomputed
    /\ Len(lastTransformCache.wValues) = Len(scene[lastOp.inst].meshes)
    /\ rotationMatrixCache # EmptyMap

\* the transformed w of vertex i (1-based) of the instance that ticked:
\* the frame's wValues once a pass has run, the shape's own w before
TransformedW(i) ==
    IF i <= Len(lastTransformCache.wValues) THEN lastTransformCache.wValues[i]
    ELSE scene[lastOp.inst].shape.vertices[i][4]

\* C3: after every tick each vertex's visible flag is showVertices and
\* (not showSlice or |w - wSlicePosition| < wSliceThickness), on the
\* inputs of that tick and the vertex's transformed w.
C3_VertexVisibilityCurrent ==
    Ticked =>
        \A i \in 1..Len(scene[lastOp.inst].meshes) :
            scene[lastOp.inst].meshes[i].visible
                = (lastOp.cl.showVertices
                   /\ (~lastOp.cl.showSlice
                       \/ Abs(TransformedW(i) - lastOp.cl.wSlicePosition)
                              < lastOp.cl.wSliceThickness))

\* endpoint v (0-based) of the shape is inside the slice band
EndpointInside(v) ==
    Abs(lastTransformCache.wValues[v + 1] - lastOp.cl.wSlicePosition)
        < lastOp.cl.wSliceThickness

EdgeShouldShow(e) ==
    lastOp.cl.showEdges
    /\ (~lastOp.cl.showSlice \/ EndpointInside(e[1]) \/ EndpointInside(e[2]))

Origin3 == <<0, 0, 0>>

\* C4: on a recomputing tick edge (a, b) is visible iff showEdges and
\* (not showSlice or a inside the band or b inside the band); a visible
\* edge carries its two projected endpoints, an invisible edge has both
\* endpoints at (0, 0, 0).
C4_EdgeVisibility ==
    (Ticked /\ lastOp.recomputed) =>
        LET sc == scene[lastOp.inst]
        IN  \A e \in 1..Len(sc.shape.edges) :
                sc.linePos[e] =
                    IF EdgeShouldShow(sc.shape.edges[e])
                    THEN <<lastTransformCache.projected[sc.shape.edges[e][1] + 1],
                           lastTransformCache.projected[sc.shape.edges[e][2] + 1]>>
                    ELSE <<Origin3, Origin3>>

\* a recomputing tick with the slice on published an edge with exactly
\* one endpoint inside the band, shown at its projected endpoints, and an
\* edge with both endpoints outside, collapsed to the origin
C4_Witness ==
    /\ Ticked
    /\ lastOp.recomputed
    /\ lastOp.cl.showSlice
    /\ lastOp.cl.showEdges
    /\ LET sc == scene[lastOp.inst]
       IN  /\ \E e \in 1..Len(sc.shape.edges) :
                 /\ EndpointInside(sc.shape.edges[e][1])
                        # EndpointInside(sc.shape.edges[e][2])
                 /\ sc.linePos[e] # <<Origin3, Origin3>>
           /\ \E e \in 1..Len(sc.shape.edges) :
                 /\ ~EndpointInside(sc.shape.edges[e][1])
                 /\ ~EndpointInside(sc.shape.edges[e][2])
                 /\ sc.linePos[e] = <<Origin3, Origin3>>

\* C5: after a tick at which colorByW is off, every vertex colour and
\* every edge endpoint colour is the active shape's base colour, whatever
\* was written on earlier ticks.
C5_BaseColourWhenOff ==
    (Ticked /\ ~lastOp.cl.colorByW) =>
        LET sc == scene[lastOp.inst]
        IN  /\ \A i \in 1..Len(sc.meshes) : sc.meshes[i].color = sc.shape.color
            /\ \A e \in 1..Len(sc.lineCol) :
                  sc.lineCol[e] = <<sc.shape.color, sc.shape.color>>

----------------------------------------------------------------------------
(* The rotation-matrix cache under a long auto-rotation (SpecCache) *)

\* the accumulators of the sweep stay within this many angle units
MaxSweep == 31500

\* a frame of the main instance while the default auto-rotation runs
SweepFrame ==
    \E delta \in DeltaTimes : Tick(1, delta) /\ AccWithin(1, MaxSweep)'

\* the user pauses or resumes the auto-rotation during the sweep
SweepPause == ToggleAutoRotation /\ InputsWithin(1)'

NextCache == SweepFrame \/ SweepPause

SpecCache == Init /\ [][NextCache]_vars

\* C6: at every point of every sequence of ticks the rotation-matrix
\* cache holds at most ROTATION_MATRIX_CACHE_SIZE (100) entries.
C6_CacheAtMost100 ==
    Cardinality(DOMAIN rotationMatrixCache) <= ROTATION_MATRIX_CACHE_SIZE

----------------------------------------------------------------------------
(* Shape transitions and the morph (SpecMorph) *)

\* frame times of the morph runs, in milliseconds
MorphDeltaTimes == {0, 100, 400}

MorphFrame ==
    \E delta \in MorphDeltaTimes : Tick(1, delta) /\ AccWithin(1, MaxAcc)'

ChangeShape ==
    \E shape \in ShapeKeys : SetActiveShape(shape) /\ InputsWithin(MaxInputs)'

MorphPause == ToggleAutoRotation /\ InputsWithin(MaxInputs)'

NextMorph == MorphFrame \/ ChangeShape \/ MorphPause

SpecMorph == Init /\ [][NextMorph]_vars

\* what one step does to the transition record of instance i
LifecycleStep(i) ==
    LET tr  == scene[i].shapeTransitionRef
        tr2 == scene'[i].shapeTransitionRef
        advancing == /\ lastOp'.op = "tick"
                     /\ lastOp'.inst = i
                     /\ tr.progress < 1 * UnitScale
    IN  /\ 0 <= tr2.progress
        /\ tr2.progress <= 1 * UnitScale
        /\ store'.activeShape # store.activeShape =>
              tr2 = [progress  |-> 0,
                     fromShape |-> SHAPE_CATALOG(store.activeShape),
                     toShape   |-> SHAPE_CATALOG(store'.activeShape)]
        /\ (store'.activeShape = store.activeShape /\ advancing) =>
              /\ tr2.progress =
                    Min2(1 * UnitScale,
                         tr.progress + RoundDiv(lastOp'.delta * MORPH_SPEED, TimeScale))
              /\ tr2.progress >= tr.progress
              /\ tr2.fromShape = tr.fromShape
              /\ tr2.toShape = tr.toShape
        /\ (store'.activeShape = store.activeShape /\ ~advancing) => tr2 = tr

\* C7: a pipeline starts with progress = 1; a change of the active shape
\* to a different one creates the record (progress 0, fromShape the shape
\* that was active, toShape the new one); a tick with progress < 1 sets
\* progress to min(1, progress + MORPH_SPEED * dt); progress stays in
\* [0, 1] and never decreases between shape changes; with progress = 1 no
\* tick changes the record.
C7_TransitionLifecycle ==
    /\ \A i \in Instances :
          scene[i].mounted => scene[i].shapeTransitionRef.progress = 1 * UnitScale
    /\ [][\A i \in Instances :
             (scene[i].mounted /\ scene'[i].mounted) => LifecycleStep(i)]_vars

\* a transition that a shape change created has been advanced by a tick
\* to its end
C7_Witness ==
    /\ Ticked
    /\ lastOp.morphing
    /\ lastOp.delta = 400
    /\ scene[lastOp.inst].shapeTransitionRef.progress = 1 * UnitScale
    /\ scene[lastOp.inst].shapeTransitionRef.fromShape # NoShape
    /\ scene[lastOp.inst].shapeTransitionRef.fromShape
          # scene[lastOp.inst].shapeTransitionRef.toShape

\* t * t * (3 - 2 * t)
Eased(progress) ==
    RoundDiv(progress * progress * (3 * UnitScale - 2 * progress),
             UnitScale * UnitScale)

\* C8: on a recomputing tick with a transition active the transformed
\* vertex list has as many entries as the TO shape; entry i is
\* FROM[i] + (TO[i] - FROM[i]) * smoothstep(progress) when FROM has an
\* index i and TO[i] otherwise; so at progress 0 the shared entries are
\* FROM's and on the tick where progress reaches 1 the list is TO's.
C8_MorphVertexList ==
    (Ticked /\ lastOp.recomputed /\ lastOp.morphing) =>
        LET tr == scene[lastOp.inst].shapeTransitionRef
            from == tr.fromShape.vertices
            to == tr.toShape.vertices
            list == lastOp.currentVertices
        IN  /\ Len(list) = Len(to)
            /\ \A i \in 1..Len(to) :
                  \A k \in 1..4 :
                     list[i][k] =
                        IF i <= Len(from)
                        THEN from[i][k]
                             + RoundDiv((to[i][k] - from[i][k]) * Eased(tr.progress),
                                        UnitScale)
                        ELSE to[i][k]
            /\ tr.progress = 0 =>
                  \A i \in 1..Min2(Len(from), Len(to)) : list[i] = from[i]
            /\ tr.progress = 1 * UnitScale => list = to

\* a tick part-way through a transition to a shape with more vertices
\* than the one it comes from: a shared entry lies strictly between its
\* two ends and the entries FROM lacks exist
C8_Witness ==
    /\ Ticked
    /\ lastOp.recomputed
    /\ lastOp.morphing
    /\ LET tr == scene[lastOp.inst].shapeTransitionRef
       IN  /\ 0 < tr.progress
           /\ tr.progress < 1 * UnitScale
           /\ Len(tr.fromShape.vertices) < Len(tr.toShape.vertices)
           /\ Len(lastOp.currentVertices) = Len(tr.toShape.vertices)
           /\ lastOp.currentVertices[1] # tr.fromShape.vertices[1]
           /\ lastOp.currentVertices[1] # tr.toShape.vertices[1]

----------------------------------------------------------------------------
(* The slice scan (SpecScan) *)

\* frame times of the scan runs, in milliseconds
ScanDeltaTimes == {0, 100}

\* the fastest scan the slider offers, in 1/UnitScale
ScanSpeedInputs == {3 * UnitScale}

\* the upper end of the W position slider
ScanPositionInputs == {ScanLimit}

ScanFrame ==
    \E delta \in ScanDeltaTimes : Tick(1, delta) /\ AccWithin(1, MaxAcc)'

StartScan == StartSliceAnimation /\ InputsWithin(MaxInputs)'

StopScan == StopSliceAnimation /\ InputsWithin(MaxInputs)'

ScanSlice == ToggleShowSlice /\ InputsWithin(MaxInputs)'

ScanPause == ToggleAutoRotation /\ InputsWithin(MaxInputs)'

ScanSpeed ==
    \E speed \in ScanSpeedInputs :
        SetSliceAnimationSpeed(speed) /\ InputsWithin(MaxInputs)'

ScanMove ==
    \E v \in ScanPositionInputs : SetWSlicePosition(v) /\ InputsWithin(MaxInputs)'

NextScan ==
    \/ ScanFrame
    \/ StartScan
    \/ StopScan
    \/ ScanSlice
    \/ ScanPause
    \/ ScanSpeed
    \/ ScanMove

SpecScan == Init /\ [][NextScan]_vars

\* the step is a frame of instance i with the scan flag on and slicing
\* enabled
StepIsScanTick(i) ==
    /\ lastOp'.op = "tick"
    /\ lastOp'.inst = i
    /\ store.isSliceAnimating
    /\ store.showSlice

\* C9: on a tick with the slice scan active the slice position becomes
\* old + speed * dt * 2, or exactly -2 when that sum exceeds 2, and the
\* tick recomputes; from a position in [-2, 2] the position stays in
\* [-2, 2].
C9_ScanAdvancesAndWraps ==
    /\ -2 * CoordScale <= store.wSlicePosition
    /\ store.wSlicePosition <= 2 * CoordScale
    /\ [][/\ \A i \in Instances :
               StepIsScanTick(i) =>
                  LET sum == store.wSlicePosition
                             + ScanStep(store.sliceAnimationSpeed, lastOp'.delta)
                  IN  /\ store'.wSlicePosition =
                            IF sum > 2 * CoordScale THEN -2 * CoordScale ELSE sum
                      /\ lastOp'.recomputed
          /\ -2 * CoordScale <= store'.wSlicePosition
          /\ store'.wSlicePosition <= 2 * CoordScale]_vars

\* a scan tick took the position past +2 and stored -2
C9_Witness ==
    /\ Ticked
    /\ lastOp.scanning
    /\ lastOp.recomputed
    /\ lastOp.cl.wSlicePosition > 0
    /\ lastOp.delta > 0
    /\ store.wSlicePosition = -2 * CoordScale

----------------------------------------------------------------------------
(* The accumulators of the two instances (SpecComparison) *)

\* the velocities integrated by instance i stay within the bound
AutoWithin(i, bound) ==
    \A p \in Planes : Abs(hist[i].autoSum[p]) <= bound

\* a frame of the main instance or of the comparison instance
CompFrame ==
    \E i \in Instances :
        \E delta \in DeltaTimes : Tick(i, delta) /\ AutoWithin(i, MaxAcc)'

CompTurn ==
    \E value \in RotationInputs :
        SetRotation("xw", value) /\ InputsWithin(MaxInputs)'

CompPause == ToggleAutoRotation /\ InputsWithin(MaxInputs)'

OpenClose == ToggleComparison /\ InputsWithin(MaxInputs)'

NextComparison == CompFrame \/ CompTurn \/ CompPause \/ OpenClose

SpecComparison == Init /\ [][NextComparison]_vars

\* C10: at every tick of an instance each plane's accumulator is the sum
\* of autoRotation[p] * dt over the instance's ticks with auto-rotation
\* on (zero before the first), and the angle of the tick's rotation
\* matrix is accumulator[p] + rotation[p].
C10_AccumulatorIsIntegral ==
    Ticked =>
        \A p \in Planes :
            /\ scene[lastOp.inst].rotationRef[p] = hist[lastOp.inst].autoSum[p]
            /\ lastOp.totalR[p]
                  = scene[lastOp.inst].rotationRef[p] + lastOp.cl.rotation[p]

----------------------------------------------------------------------------
(* Polytopes stay as constructed (under SpecMorph) *)

\* the shape is what one of the catalog's factories returns
AsConstructed(shape) ==
    \E key \in ShapeKeys :
        /\ shape.vertices = SHAPE_CATALOG(key).vertices
        /\ shape.edges = SHAPE_CATALOG(key).edges

\* C11: no tick writes to the vertices or edges of a Polytope a factory
\* returned: the active shape, a transition's FROM shape and its TO shape
\* keep the values they had at construction.
C11_PolytopesImmutable ==
    \A i \in Instances :
        scene[i].mounted =>
            /\ scene[i].shape.vertices
                  = SHAPE_CATALOG(scene[i].lastActiveShapeRef).vertices
            /\ scene[i].shape.edges
                  = SHAPE_CATALOG(scene[i].lastActiveShapeRef).edges
            /\ scene[i].shapeTransitionRef.fromShape # NoShape =>
                  /\ AsConstructed(scene[i].shapeTransitionRef.fromShape)
                  /\ AsConstructed(scene[i].shapeTransitionRef.toShape)

\* a morph tick has written the morph into buffer slots that an earlier
\* morph tick had allocated, part-way through a transition
C11_Witness ==
    /\ Ticked
    /\ lastOp.recomputed
    /\ lastOp.morphing
    /\ lastOp.delta > 0
    /\ scene[lastOp.inst].shapeTransitionRef.progress > (UnitScale \div 4)
    /\ scene[lastOp.inst].shapeTransitionRef.progress < 1 * UnitScale
    /\ lastTransformCache.vertices = lastOp.currentVertices
    /\ lastTransformCache.vertices # scene[lastOp.inst].shape.vertices
    /\ Len(lastTransformCache.owners) = Len(scene[lastOp.inst].shape.vertices)

----------------------------------------------------------------------------
(* The specification of the NaN claim: one instance, the xw slider and    *)
(* the xw velocity each set to NaN and to a number again, auto-rotation   *)
(* paused and resumed.                                                    *)

VelocityInputs == {0, 3000}

NaNFrame ==
    \E delta \in DeltaTimes : Tick(1, delta) /\ AccWithin(1, MaxAcc)'

PoisonRotation == SetRotation("xw", NaN) /\ InputsWithin(MaxInputs)'

RepairRotation ==
    \E value \in RotationInputs : SetRotation("xw", value) /\ InputsWithin(MaxInputs)'

PoisonVelocity == SetAutoRotation("xw", NaN) /\ InputsWithin(MaxInputs)'

RepairVelocity ==
    \E value \in VelocityInputs : SetAutoRotation("xw", value) /\ InputsWithin(MaxInputs)'

NaNPause == ToggleAutoRotation /\ InputsWithin(MaxInputs)'

NextNaN ==
    \/ NaNFrame
    \/ PoisonRotation
    \/ RepairRotation
    \/ PoisonVelocity
    \/ RepairVelocity
    \/ NaNPause

SpecNaN == Init /\ [][NextNaN]_vars

\* the tick read only numbers from the store's rotation and velocities
ValidInputs(cl) ==
    \A p \in Planes : ~IsNaN(cl.rotation[p]) /\ ~IsNaN(cl.autoRotation[p])

FiniteAngles(r) == \A p \in Planes : ~IsNaN(r[p])

FinitePoint(v) == \A k \in 1..Len(v) : ~IsNaN(v[k])

\* every sphere and every line endpoint of the instance is at a finite point
PositionsFinite(sc) ==
    /\ \A k \in 1..Len(sc.meshes) : FinitePoint(sc.meshes[k].position)
    /\ \A e \in 1..Len(sc.linePos) :
          FinitePoint(sc.linePos[e][1]) /\ FinitePoint(sc.linePos[e][2])

\* C12: after a tick whose rotation angles and velocities are all numbers,
\* no NaN of an earlier tick is left in the pipeline: the accumulator and
\* the last-inputs snapshot hold numbers, and when the tick recomputed,
\* every published position is finite.
C12_NaNSelfCorrects ==
    (Ticked /\ ValidInputs(lastOp.cl)) =>
        /\ FiniteAngles(scene[lastOp.inst].rotationRef)
        /\ FiniteAngles(scene[lastOp.inst].lastUpdateRef.rotation)
        /\ (lastOp.recomputed => PositionsFinite(scene[lastOp.inst]))

----------------------------------------------------------------------------
(* The specification of the reset claim: one instance, the xw slider,     *)
(* the reset key and the auto-rotation checkbox.                          *)

ResetFrame ==
    \E delta \in DeltaTimes : Tick(1, delta) /\ AccWithin(1, MaxAcc)'

ResetTurn ==
    \E value \in RotationInputs : SetRotation("xw", value) /\ InputsWithin(MaxInputs)'

PressR == ResetRotation /\ InputsWithin(MaxInputs)'

ResetPause == ToggleAutoRotation /\ InputsWithin(MaxInputs)'

NextReset ==
    \/ ResetFrame
    \/ ResetTurn
    \/ PressR
    \/ ResetPause

SpecReset == Init /\ [][NextReset]_vars

\* C13: the first tick that recomputes after resetRotation, with
\* auto-rotation off at that tick, uses a total rotation of zero on all
\* six planes.
C13_ResetGivesIdentity ==
    (Ticked /\ lastOp.recomputed /\ lastOp.afterReset /\ ~lastOp.auto) =>
        \A p \in Planes : lastOp.totalR[p] = 0

----------------------------------------------------------------------------
(* The specification of the factory claims: the factories are called      *)
(* with sizes, segment counts and detail levels from bounded sets, and    *)
(* the validation is run on each catalog entry.  The scene is left as     *)
(* constructed.                                                           *)

\* sizes and radii are 1 .. MaxSize
MaxSize == 2

\* segment counts are 0 .. MaxSegments, past the cap
MaxSegments == 25

\* detail levels are 0 .. MaxDetail, past the cap
MaxDetail == 5

ShapeSizes == {k * CoordScale : k \in 1..MaxSize}

SecondSegments == {1, 16, MaxSegments}

SceneUntouched ==
    UNCHANGED <<store, scene, rotationMatrixCache, lastTransformCache, hist,
                inputCount>>

\* the program as constructed, with one of the calls pending
Pending(calls) ==
    /\ lastOp \in calls
    /\ store = InitialStore
    /\ scene = [i \in Instances |-> IF i = 1 THEN FirstRender(InitialStore)
                                    ELSE Unmounted]
    /\ rotationMatrixCache = EmptyMap
    /\ lastTransformCache = [vertices |-> <<>>, owners |-> <<>>,
                             projected |-> <<>>,
                             wValues |-> <<>>, minW |-> 0, maxW |-> 0]
    /\ hist = [i \in Instances |-> NoHistory]
    /\ inputCount = 0

\* a size below one: three tenths
FineSizes == {(3 * CoordScale) \div 10}

ShapeCalls ==
    [op : {"call"}, key : SizedKeys, args : {<<size>> : size \in ShapeSizes}]
    \cup [op : {"call"}, key : {"24cell"}, args : {<<size>> : size \in FineSizes}]
    \cup [op : {"call"}, key : {"torus"},
          args : ShapeSizes \X (0..MaxSegments) \X SecondSegments]
    \cup [op : {"call"}, key : {"sphere"}, args : ShapeSizes \X (0..MaxDetail)]
    \cup [op : {"validate"}, key : CatalogKeys, args : {<<1 * CoordScale>>}]

InitShapes == Pending(ShapeCalls)

Called(keys) == lastOp.op = "call" /\ lastOp.key \in keys

\* what a factory call returned
Made(call, shape) ==
    [op |-> "create", key |-> call.key, args |-> call.args, shape |-> shape]

CreateSized ==
    /\ Called(SizedKeys)
    /\ lastOp' = Made(lastOp, CatalogCreate(lastOp.key, lastOp.args[1]))
    /\ SceneUntouched

CreateTorus ==
    /\ Called({"torus"})
    /\ lastOp' = Made(lastOp, create4DTorus(lastOp.args[1], (4 * CoordScale) \div 10,
                                            lastOp.args[2], lastOp.args[3]))
    /\ SceneUntouched

CreateSphere ==
    /\ Called({"sphere"})
    /\ lastOp' = Made(lastOp, create4DSphere(lastOp.args[1], lastOp.args[2]))
    /\ SceneUntouched

\* what one iteration of the validation loop found for the shape
Validation(key, shape) ==
    [op |-> "validated", key |-> key, shape |-> shape, issues |-> ShapeIssues(shape)]

\* one iteration of runShapeValidation's loop over the catalog
runShapeValidation ==
    /\ lastOp.op = "validate"
    /\ lastOp' = Validation(lastOp.key, CatalogCreate(lastOp.key, lastOp.args[1]))
    /\ SceneUntouched

NextShapes ==
    \/ CreateSized
    \/ CreateTorus
    \/ CreateSphere
    \/ runShapeValidation

SpecShapes == InitShapes /\ [][NextShapes]_vars

Created == lastOp.op = "create"

Validated == lastOp.op = "validated"

\* two vertices within 1e-3 of each other on every coordinate
Within1e3(a, b) == \A k \in 1..4 : Abs(a[k] - b[k]) * 1000 <= CoordScale

NoTwoVerticesClose(vertices) ==
    \A b \in 2..Len(vertices) : \A a \in 1..(b - 1) :
        ~Within1e3(vertices[a], vertices[b])

EdgesInRangeAndDistinct(shape) ==
    \A e \in 1..Len(shape.edges) :
        /\ shape.edges[e][1] \in 0..(Len(shape.vertices) - 1)
        /\ shape.edges[e][2] \in 0..(Len(shape.vertices) - 1)
        /\ shape.edges[e][1] # shape.edges[e][2]

\* C14: each of the nine catalog shapes made at size 1 has no two
\* vertices within 1e-3 of each other, and every edge of it names two
\* distinct vertex indices in range.
C14_NoCloseVerticesValidEdges ==
    Validated =>
        /\ NoTwoVerticesClose(lastOp.shape.vertices)
        /\ EdgesInRangeAndDistinct(lastOp.shape)

SizeOne == lastOp.args = <<1 * CoordScale>>

EdgeSet(shape) == {shape.edges[e] : e \in 1..Len(shape.edges)}

\* the shape has v vertices and e edges, no edge listed twice
Counts(shape, v, e) ==
    /\ Len(shape.vertices) = v
    /\ Len(shape.edges) = e
    /\ Cardinality(EdgeSet(shape)) = e

\* the index pairs i < j below n that Adj relates
PairsWhere(n, Adj(_, _)) ==
    {pair \in (0..(n - 1)) \X (0..(n - 1)) : pair[1] < pair[2] /\ Adj(pair[1], pair[2])}

OneBitApart(i, j) == Cardinality({k \in 0..3 : Bit(i, k) # Bit(j, k)}) = 1

Antipodal(vertices, i, j) ==
    \A k \in 1..4 : vertices[i + 1][k] = -vertices[j + 1][k]

\* a and b are neighbours on a polygon with n corners
CyclicNeighbours(a, b, n) == (a - b) % n \in {1, n - 1}

\* vertex i = i1 * n + j1 and vertex j = i2 * n + j2 of a product of two
\* polygons: one polygon index adjacent, the other equal
GridAdjacent(i, j, n) ==
    \/ i \div n = j \div n /\ CyclicNeighbours(i % n, j % n, n)
    \/ i % n = j % n /\ CyclicNeighbours(i \div n, j \div n, n)

\* C15: at size 1 the factories return tesseract 16/32 with an edge
\* exactly between indices one bit apart, 16-cell 8/24 with an edge exactly
\* between non-antipodal vertices, 24-cell 24/96, 5-cell 5/10 with every
\* pair an edge, 3,3-duoprism 9/18 and 4,4-duoprism 16/32 with an edge
\* exactly where one polygon index is a cyclic neighbour and the other is
\* equal.
C15_CountsAndAdjacency ==
    (Created /\ SizeOne) =>
        /\ lastOp.key = "tesseract" =>
              /\ Counts(lastOp.shape, 16, 32)
              /\ EdgeSet(lastOp.shape) = PairsWhere(16, OneBitApart)
        /\ lastOp.key = "16cell" =>
              /\ Counts(lastOp.shape, 8, 24)
              /\ EdgeSet(lastOp.shape)
                   = PairsWhere(8, LAMBDA i, j : ~Antipodal(lastOp.shape.vertices, i, j))
        /\ lastOp.key = "24cell" => Counts(lastOp.shape, 24, 96)
        /\ lastOp.key = "5cell" =>
              /\ Counts(lastOp.shape, 5, 10)
              /\ EdgeSet(lastOp.shape) = PairsWhere(5, LAMBDA i, j : TRUE)
        /\ lastOp.key = "duoprism33" =>
              /\ Counts(lastOp.shape, 9, 18)
              /\ EdgeSet(lastOp.shape) = PairsWhere(9, LAMBDA i, j : GridAdjacent(i, j, 3))
        /\ lastOp.key = "duoprism44" =>
              /\ Counts(lastOp.shape, 16, 32)
              /\ EdgeSet(lastOp.shape) = PairsWhere(16, LAMBDA i, j : GridAdjacent(i, j, 4))

\* the 4,4-duoprism made at size 1, with the edge that wraps around its
\* second square
C15_Witness ==
    /\ Created
    /\ SizeOne
    /\ lastOp.key = "duoprism44"
    /\ Len(lastOp.shape.edges) = 32
    /\ <<0, 3>> \in EdgeSet(lastOp.shape)

\* C16: whatever the size, detail and segment counts, the sphere has at
\* most 200 vertices and 800 edges, the torus is built on at most 24 x 24
\* segments, and every factory stays within 1000 vertices and 2000 edges.
C16_WithinCeilings ==
    Created =>
        /\ Len(lastOp.shape.vertices) <= MAX_VERTICES
        /\ Len(lastOp.shape.edges) <= LIMIT_MAX_EDGES
        /\ lastOp.key = "sphere" =>
              /\ Len(lastOp.shape.vertices) <= MAX_SPHERE_VERTICES
              /\ Len(lastOp.shape.edges) <= MAX_EDGES
        /\ lastOp.key = "torus" =>
              /\ Len(lastOp.shape.vertices)
                   = Min2(lastOp.args[2], MAX_TORUS_SEGMENTS)
                     * Min2(lastOp.args[3], MAX_TORUS_SEGMENTS)
              /\ Len(lastOp.shape.vertices) <= MAX_TORUS_SEGMENTS * MAX_TORUS_SEGMENTS

\* a sphere asked for with a detail past the cap, stopped at both ceilings
C16_Witness ==
    /\ Created
    /\ lastOp.key = "sphere"
    /\ lastOp.args[2] > MAX_SPHERE_DETAIL
    /\ Len(lastOp.shape.vertices) = MAX_SPHERE_VERTICES
    /\ Len(lastOp.shape.edges) = MAX_EDGES

----------------------------------------------------------------------------
(* The algebra and the projections of engine/math4d.ts as callable        *)
(* functions: a generator applied to a point, a composition of            *)
(* generators, the transform-and-project loop of the pipeline on a        *)
(* catalog shape, and one projection of one point.  The scene is left as  *)
(* constructed.                                                           *)

\* angles are the quarter turns 0 .. MaxTurns and a twelfth of a turn
MaxTurns == 3

\* coordinates are -MaxCoord .. MaxCoord
MaxCoord == 2

MathAngles == {k * HalfPi : k \in 0..MaxTurns} \cup {HalfPi \div 3}

Coords == {k * CoordScale : k \in (-MaxCoord)..MaxCoord}

\* the vertices of the size-2 tesseract and points with four different
\* coordinates
MathPoints ==
    {createTesseract(2 * CoordScale).vertices[i] : i \in 1..16}
    \cup {vec4(x, 2 * CoordScale, 3 * CoordScale, w) : x \in Coords, w \in Coords}

\* the denominators tried: zero, one unit of the grid and one whole unit
\* to either side
Denominators == {-CoordScale, -1, 0, 1, CoordScale}

ViewDistances == {0, 2 * CoordScale, 3 * CoordScale, -CoordScale}

ProjectedPoints ==
    {vec4(x, -x, y, viewDistance - d) :
        x \in Coords, y \in {0, CoordScale \div 2}, viewDistance \in ViewDistances,
        d \in Denominators}

CanonicalOrder == <<"xy", "xz", "xw", "yz", "yw", "zw">>

Generators == Planes \X MathAngles

\* up to two generators in any order, or the six in the canonical order
\* at one angle
GeneratorLists ==
    {<< >>} \cup {<<g>> : g \in Generators}
    \cup {<<g, h>> : g \in Generators, h \in Generators}
    \cup {[k \in 1..6 |-> <<CanonicalOrder[k], a>>] : a \in MathAngles}

MathCalls ==
    [op : {"math"}, fn : {"rotate"}, plane : Planes, angle : MathAngles,
     point : MathPoints]
    \cup [op : {"math"}, fn : {"compose"}, gens : GeneratorLists]
    \cup [op : {"math"}, fn : {"publish"}, key : CatalogKeys, size : ShapeSizes,
          angle : {0, HalfPi}, mode : ProjectionModes]
    \cup [op : {"math"}, fn : {"project"}, mode : {"perspective", "stereographic"},
          point : ProjectedPoints, viewDistance : ViewDistances]

InitMath == Pending(MathCalls)

MathCalled(fn) == lastOp.op = "math" /\ lastOp.fn = fn

\* the generator of a plane
Generator(plane, angle) ==
    CASE plane = "xy" -> rotateXY(angle)
      [] plane = "xz" -> rotateXZ(angle)
      [] plane = "xw" -> rotateXW(angle)
      [] plane = "yz" -> rotateYZ(angle)
      [] plane = "yw" -> rotateYW(angle)
      [] plane = "zw" -> rotateZW(angle)

GeneratorMatrices(gens) ==
    Array([k \in 1..Len(gens) |-> Generator(gens[k][1], gens[k][2])])

\* mulMatVec4(rotate..(angle), point), then the orthographic projection
RotatePoint ==
    /\ MathCalled("rotate")
    /\ \E rotated \in {mulMatVec4(Generator(lastOp.plane, lastOp.angle), lastOp.point)} :
          lastOp' = [op |-> "rotated", plane |-> lastOp.plane,
                     angle |-> lastOp.angle, point |-> lastOp.point,
                     rotated |-> rotated,
                     published |-> projectOrthographic4Dto3D(rotated)]
    /\ SceneUntouched

\* composeRotations(...matrices)
Compose ==
    /\ MathCalled("compose")
    /\ \E matrices \in {GeneratorMatrices(lastOp.gens)} :
          lastOp' = [op |-> "composed", gens |-> lastOp.gens,
                     matrices |-> matrices,
                     matrix |-> composeRotations(matrices)]
    /\ SceneUntouched

\* the matrix, transform and projection steps of one recomputing frame,
\* with the same total angle on the six planes
TransformAndProject ==
    /\ MathCalled("publish")
    /\ \E shape \in {CatalogCreate(lastOp.key, lastOp.size)} :
       \E rotMatrix \in {ComposeTotal([p \in Planes |-> lastOp.angle])} :
       \E cl \in {[projectionMode |-> lastOp.mode, viewDistance |-> 3 * CoordScale]} :
          lastOp' = [op |-> "published", key |-> lastOp.key, angle |-> lastOp.angle,
                     mode |-> lastOp.mode, vertices |-> shape.vertices,
                     rotMatrix |-> rotMatrix,
                     projected |-> ProjectVertices(cl,
                                      TransformVertices(rotMatrix, shape.vertices))]
    /\ SceneUntouched

\* projectPerspective4Dto3D(point, viewDistance) or
\* projectStereographic4Dto3D(point, viewDistance)
ProjectPoint ==
    /\ MathCalled("project")
    /\ lastOp' = [op |-> "projected", mode |-> lastOp.mode, point |-> lastOp.point,
                  viewDistance |-> lastOp.viewDistance,
                  result |-> project([projectionMode |-> lastOp.mode,
                                      viewDistance |-> lastOp.viewDistance],
                                     lastOp.point)]
    /\ SceneUntouched

NextMath ==
    \/ RotatePoint
    \/ Compose
    \/ TransformAndProject
    \/ ProjectPoint

SpecMath == InitMath /\ [][NextMath]_vars

Rotated == lastOp.op = "rotated"

QuarterTurnXW == Rotated /\ lastOp.plane = "xw" /\ lastOp.angle = HalfPi

\* the vertex (-1,-1,-1,-1) of the size-2 tesseract
AllMinusOne == vec4(-CoordScale, -CoordScale, -CoordScale, -CoordScale)

\* C17, as stated: rotateXW(pi/2) takes (x,y,z,w) to x' = w, w' = -x with
\* y and z unchanged, and the vertex (-1,-1,-1,-1) of the size-2 tesseract,
\* rotated by pi/2 in the XW plane and projected orthographically, is
\* published at (-1,-1,-1).
C17_QuarterTurnXWAsStated ==
    QuarterTurnXW =>
        /\ lastOp.rotated = vec4(lastOp.point[4], lastOp.point[2],
                                 lastOp.point[3], -lastOp.point[1])
        /\ lastOp.point = AllMinusOne =>
              lastOp.published = <<-CoordScale, -CoordScale, -CoordScale>>

\* C17, amended: rotateXW(pi/2) takes (x,y,z,w) to x' = -w, w' = x with y
\* and z unchanged (the block (cos, -sin; sin, cos) on the axes x and w),
\* and the vertex (-1,-1,-1,-1) of the size-2 tesseract, rotated by pi/2 in
\* the XW plane and projected orthographically, is published at (1,-1,-1).
C17_QuarterTurnXW ==
    QuarterTurnXW =>
        /\ lastOp.rotated = vec4(-lastOp.point[4], lastOp.point[2],
                                 lastOp.point[3], lastOp.point[1])
        /\ lastOp.point = AllMinusOne =>
              lastOp.published = <<CoordScale, -CoordScale, -CoordScale>>

\* the vertex (-1,-1,-1,-1) after the quarter turn in XW
C17_Witness ==
    /\ QuarterTurnXW
    /\ lastOp.point = AllMinusOne
    /\ lastOp.point \in {createTesseract(2 * CoordScale).vertices[i] : i \in 1..16}
    /\ lastOp.published[1] = CoordScale

Composed == lastOp.op = "composed"

\* the call composeRotations(first, second) on two quarter-turn generators
QuarterTurns(first, second) ==
    /\ Composed
    /\ lastOp.gens = <<<<first, HalfPi>>, <<second, HalfPi>>>>

\* I * m1 * ... * mn written out for n <= 2 and for the six generators
LeftToRight(ms) ==
    CASE Len(ms) = 0 -> identity4
      [] Len(ms) = 1 -> mulMat4(identity4, ms[1])
      [] Len(ms) = 2 -> mulMat4(mulMat4(identity4, ms[1]), ms[2])
      [] Len(ms) = 6 ->
            mulMat4(mulMat4(mulMat4(mulMat4(mulMat4(mulMat4(identity4,
                ms[1]), ms[2]), ms[3]), ms[4]), ms[5]), ms[6])

\* C18: composeRotations(m1..mn) is the left-to-right product
\* I * m1 * ... * mn, and composition is order-sensitive: for a = b = pi/2,
\* composeRotations(rotateXY(a), rotateXW(b)) is a different matrix from
\* composeRotations(rotateXW(b), rotateXY(a)).
C18_CompositionOrderSensitive ==
    /\ Composed => lastOp.matrix = LeftToRight(lastOp.matrices)
    /\ QuarterTurns("xy", "xw") =>
          /\ lastOp.matrices = <<rotateXY(HalfPi), rotateXW(HalfPi)>>
          /\ lastOp.matrix
               # composeRotations(<<lastOp.matrices[2], lastOp.matrices[1]>>)
    /\ QuarterTurns("xw", "xy") =>
          /\ lastOp.matrices = <<rotateXW(HalfPi), rotateXY(HalfPi)>>
          /\ lastOp.matrix
               # composeRotations(<<lastOp.matrices[2], lastOp.matrices[1]>>)

\* the quarter turns in XY then XW composed: the first row of the product
\* is the first row of rotateXY(pi/2) times rotateXW(pi/2)
C18_Witness ==
    /\ QuarterTurns("xy", "xw")
    /\ lastOp.matrix[1] = <<0, -TrigScale, 0, 0>>
    /\ lastOp.matrix[2] = <<0, 0, 0, -TrigScale>>

Published == lastOp.op = "published"

\* the transform-and-project loop ran with the six total angles zero and
\* the orthographic projection
ZeroAnglesOrthographic ==
    Published /\ lastOp.angle = 0 /\ lastOp.mode = "orthographic"

\* the six generators in the canonical order, all at angle zero
SixAtZero == [k \in 1..6 |-> <<CanonicalOrder[k], 0>>]

\* the functions alone: composeRotations of the six generators at angle 0
\* is the identity, and the loop run on it with the orthographic
\* projection returns the original (x, y, z) of every catalog vertex
ZeroAnglesPure ==
    /\ (Composed /\ lastOp.gens = SixAtZero) => lastOp.matrix = identity4
    /\ ZeroAnglesOrthographic =>
          /\ lastOp.rotMatrix = identity4
          /\ Len(lastOp.projected) = Len(lastOp.vertices)
          /\ \A i \in 1..Len(lastOp.vertices) :
                lastOp.projected[i] = <<lastOp.vertices[i][1], lastOp.vertices[i][2],
                                        lastOp.vertices[i][3]>>

----------------------------------------------------------------------------
(* The pipeline at small frame times: the accumulators move by less than  *)
(* half a thousandth of a radian per frame, so that successive totals     *)
(* share a 3-decimal cache key.                                           *)

\* 2 ms
SlowDeltaTimes == {2}

\* 0 and -0.2 rad/s
SlowVelocityInputs == {0, -2000}

\* the accumulators stay within MaxSlowAcc ten-thousandths of a radian
MaxSlowAcc == 8

SlowFrame ==
    \E delta \in SlowDeltaTimes : Tick(1, delta) /\ AccWithin(1, MaxSlowAcc)'

SlowVelocity ==
    \E plane \in {"xw", "yw"}, value \in SlowVelocityInputs :
        SetAutoRotation(plane, value) /\ InputsWithin(MaxInputs)'

SlowOrthographic == SetProjectionMode("orthographic") /\ InputsWithin(MaxInputs)'

NextSlow ==
    \/ SlowFrame
    \/ SlowVelocity
    \/ SlowOrthographic

SpecSlow == Init /\ [][NextSlow]_vars

\* a recomputing tick, outside a transition, whose six total angles are zero
ZeroTotalTick ==
    /\ Ticked
    /\ lastOp.recomputed
    /\ ~lastOp.morphing
    /\ \A p \in Planes : lastOp.totalR[p] = 0

\* C19: when all six total angles are zero the rotation matrix the tick
\* applies (composeRotations of the six generators at angle 0) is the
\* identity, and with the orthographic projection every vertex of the
\* shape is published at exactly its original (x, y, z).
C19_ZeroAnglesPublishOriginal ==
    ZeroTotalTick =>
        /\ lastOp.rotMatrix = identity4
        /\ lastOp.cl.projectionMode = "orthographic" =>
              \A k \in 1..Len(scene[lastOp.inst].meshes) :
                  scene[lastOp.inst].meshes[k].position
                    = projectOrthographic4Dto3D(scene[lastOp.inst].shape.vertices[k])

----------------------------------------------------------------------------
(* The projections at and around the singular denominator, under SpecMath *)

Projected == lastOp.op = "projected"

\* d = viewDistance - p.w of the projection made
Denominator == lastOp.viewDistance - lastOp.point[4]

\* |d| < 1e-4
BelowGuard(d) == Abs(d) * 10^4 < CoordScale

Finite(x) == ~IsNaN(x) /\ Abs(x) # Infinity

\* the numerator's factor: viewDistance for the perspective projection,
\* 1 for the stereographic one
Factor == IF lastOp.mode = "perspective" THEN lastOp.viewDistance ELSE CoordScale

----------------------------------------------------------------------------
(* The colour mapper of utils/ColorCache.ts as a callable function, with  *)
(* w and the range ends drawn from the coordinate range in hundredths.    *)
(* The scene is left as constructed.                                      *)

Hundredth == CoordScale \div 100

ColorWs == {k * Hundredth : k \in (-(MaxCoord * 100))..(MaxCoord * 100)}

ColorCalls ==
    {c \in [op : {"color"}, w : ColorWs, minW : Coords, maxW : Coords] :
        c.minW <= c.maxW}

InitColor == Pending(ColorCalls)

\* wToColorCached(w, minW, maxW, targetColor): targetColor afterwards,
\* with the range, t and s it was blended from
MapColor ==
    /\ lastOp.op = "color"
    /\ lastOp' = [op |-> "colored", w |-> lastOp.w, minW |-> lastOp.minW,
                  maxW |-> lastOp.maxW,
                  range |-> ColorRange(lastOp.minW, lastOp.maxW),
                  t |-> ColorT(lastOp.w, lastOp.minW, lastOp.maxW),
                  s |-> BlendParameter(ColorT(lastOp.w, lastOp.minW, lastOp.maxW)),
                  targetColor |-> Array(wToColorCached(lastOp.w, lastOp.minW,
                                                       lastOp.maxW))]
    /\ SceneUntouched

NextColor == MapColor

SpecColor == InitColor /\ [][NextColor]_vars

Colored == lastOp.op = "colored"

\* clamp((w - minW) / (maxW - minW), 0, 1) for minW < maxW
Clamped01 ==
    LET q == RoundDiv((lastOp.w - lastOp.minW) * UnitScale, lastOp.maxW - lastOp.minW)
    IN  IF q < 0 THEN 0 ELSE IF q > UnitScale THEN UnitScale ELSE q

----------------------------------------------------------------------------
(* The W range behind the colours of a tick, under Spec *)

\* the w of every vertex the tick transformed
TickWs ==
    {mulMatVec4(lastOp.rotMatrix, lastOp.currentVertices[i])[4] :
        i \in 1..Len(lastOp.currentVertices)}

SetMin(S) == CHOOSE m \in S : \A x \in S : m <= x

SetMax(S) == CHOOSE m \in S : \A x \in S : m >= x

ColouringTick == Ticked /\ lastOp.recomputed /\ lastOp.cl.colorByW

\* every colour the tick wrote is the colour of its w under the range lo .. hi
ColoursUse(sc, ws, lo, hi) ==
    /\ \A i \in 1..Len(sc.meshes) :
          sc.meshes[i].visible =>
              Array(sc.meshes[i].color) = Array(wToColorCached(ws[i], lo, hi))
    /\ \A e \in 1..Len(sc.shape.edges) :
          /\ Array(sc.lineCol[e][1])
               = Array(wToColorCached(ws[sc.shape.edges[e][1] + 1], lo, hi))
          /\ Array(sc.lineCol[e][2])
               = Array(wToColorCached(ws[sc.shape.edges[e][2] + 1], lo, hi))

\* C22: within a recomputing tick every W-colour written for a vertex or
\* an edge endpoint is computed from the minW/maxW taken over all the
\* vertices transformed in that same tick, not from a partial running
\* range nor from an earlier tick's range.
C22_ColoursUseFinalRange ==
    ColouringTick =>
        \A tickWs \in {TickWs} :
        \A lo \in {SetMin(tickWs)}, hi \in {SetMax(tickWs)} :
            /\ {lastTransformCache.wValues[i] :
                   i \in 1..Len(lastTransformCache.wValues)} = tickWs
            /\ ColoursUse(scene[lastOp.inst], lastTransformCache.wValues, lo, hi)

\* a later tick whose range moved: the first vertex is neither at the
\* bottom nor at the top of the range and some vertex is at the top
C22_Witness ==
    /\ ColouringTick
    /\ scene[lastOp.inst].rotationRef["xw"] > 300     \* past the first frame
    /\ scene[lastOp.inst].meshes[1].visible
    /\ \E tickWs \in {TickWs} :
          /\ lastTransformCache.wValues[1] > SetMin(tickWs)
          /\ lastTransformCache.wValues[1] < SetMax(tickWs)
    /\ \E i \in 1..Len(scene[lastOp.inst].meshes) :
          /\ scene[lastOp.inst].meshes[i].visible
          /\ Array(scene[lastOp.inst].meshes[i].color) = GOLD

----------------------------------------------------------------------------
(* The pipeline under changes smaller than the dirty check's tolerances:  *)
(* the manual xw angle, the view distance and the slice position move in  *)
(* steps of 0.0006 rad and 0.006, while frames run with auto-rotation on  *)
(* or off.                                                                *)

\* 0, 0.0006 and 0.0012 rad
DriftAngles == {0, 6, 12}

\* 0, 0.006 and 0.012 away from the default
DriftOffsets == {0, 6, 12}

DriftFrame ==
    \E delta \in DeltaTimes : Tick(1, delta) /\ AccWithin(1, MaxAcc)'

DriftPause == ToggleAutoRotation /\ InputsWithin(MaxInputs)'

DriftTurn ==
    \E value \in DriftAngles : SetRotation("xw", value) /\ InputsWithin(MaxInputs)'

DriftView ==
    \E offset \in DriftOffsets :
        SetViewDistance(3 * CoordScale + offset) /\ InputsWithin(MaxInputs)'

DriftSlice ==
    \E offset \in DriftOffsets : SetWSlicePosition(offset) /\ InputsWithin(MaxInputs)'

NextDrift ==
    \/ DriftFrame
    \/ DriftPause
    \/ DriftTurn
    \/ DriftView
    \/ DriftSlice

SpecDrift == Init /\ [][NextDrift]_vars

\* the snapshot differs from the inputs by at most the tolerances
WithinTolerance(last, inputs) ==
    /\ \A p \in Planes :
          Abs(inputs.rotation[p] - last.rotation[p]) * 1000 <= AngleScale
    /\ Abs(inputs.viewDistance - last.viewDistance) * 100 <= CoordScale
    /\ Abs(inputs.wSlicePosition - last.wSlicePosition) * 100 <= CoordScale
    /\ Abs(inputs.wSliceThickness - last.wSliceThickness) * 100 <= CoordScale
    /\ inputs.projectionMode = last.projectionMode
    /\ inputs.showSlice = last.showSlice
    /\ inputs.colorByW = last.colorByW

\* C23: after every tick the inputs snapshot behind the published output
\* differs from the inputs of that tick by at most the tolerance (0.001 rad
\* on each manual rotation plane, 0.01 for viewDistance, slice position and
\* slice thickness, nothing for projection mode, slicing and colorByW),
\* also after changes that are each below the tolerance; outside a slice
\* scan, which moves the slice itself, the same holds against the store.
C23_SnapshotWithinTolerance ==
    Ticked =>
        /\ WithinTolerance(scene[lastOp.inst].lastUpdateRef, lastOp.cl)
        /\ ~lastOp.scanning =>
              WithinTolerance(scene[lastOp.inst].lastUpdateRef, store)

\* a skipped tick after frames that recomputed: the slider is 0.0006 rad
\* away from the snapshot
C23_Witness ==
    /\ Ticked
    /\ ~lastOp.recomputed
    /\ scene[lastOp.inst].rotationRef["xw"] > 0
    /\ lastOp.cl.rotation["xw"] # scene[lastOp.inst].lastUpdateRef.rotation["xw"]

\* the drift was noticed: two changes below the tolerance add up to more,
\* and the tick recomputed with auto-rotation off and took the snapshot
DriftNoticed ==
    /\ Ticked
    /\ lastOp.recomputed
    /\ ~lastOp.auto
    /\ lastOp.cl.rotation["xw"] = 12
    /\ scene[lastOp.inst].lastUpdateRef.rotation["xw"] = 12

----------------------------------------------------------------------------
(* The rotation-matrix cache under SpecSlow, where successive totals      *)
(* share a key                                                            *)

\* an angle rounded to 3 decimals, in thousandths
Thousandths(a) == Sign(a) * ((2 * Abs(a) * 1000 + AngleScale) \div (2 * AngleScale))

\* matrix is the product of the six generators in the fixed order,
\* I * XY * XZ * XW * YZ * YW * ZW, at the angles
IsCanonicalProduct(matrix, angles) ==
    \A xy \in {rotateXY(angles["xy"])}, xz \in {rotateXZ(angles["xz"])},
       xw \in {rotateXW(angles["xw"])}, yz \in {rotateYZ(angles["yz"])},
       yw \in {rotateYW(angles["yw"])}, zw \in {rotateZW(angles["zw"])} :
    \A m1 \in {mulMat4(identity4, xy)} :
    \A m2 \in {mulMat4(m1, xz)} :
    \A m3 \in {mulMat4(m2, xw)} :
    \A m4 \in {mulMat4(m3, yz)} :
    \A m5 \in {mulMat4(m4, yw)} :
        matrix = mulMat4(m5, zw)

\* the key of the tick that has just run
TickKey == RotKey(lastOp.totalR)

\* C24, the matrix: on every recomputing tick, hit or miss, the matrix
\* applied to the vertices is composeRotations(rotateXY, rotateXZ, rotateXW,
\* rotateYZ, rotateYW, rotateZW), in that order, at six angles whose
\* 3-decimal roundings equal those of the tick's total rotation.
RoundedAnglesMatrix ==
    (Ticked /\ lastOp.recomputed) =>
        /\ TickKey \in DOMAIN hist[1].composedAt
        /\ \A angles \in {hist[1].composedAt[TickKey]} :
              /\ \A p \in Planes :
                    Thousandths(angles[p]) = Thousandths(lastOp.totalR[p])
              /\ IsCanonicalProduct(lastOp.rotMatrix, angles)

\* C24, the cache: a lookup returns what is stored under the tick's own
\* key, and a stored entry is not replaced by a different matrix unless
\* the cache was cleared (it then holds the one new entry).
CacheStep ==
    (lastOp'.op = "tick" /\ lastOp'.recomputed) =>
        /\ RotKey(lastOp'.totalR) \in DOMAIN rotationMatrixCache =>
              lastOp'.rotMatrix = rotationMatrixCache[RotKey(lastOp'.totalR)]
        /\ rotationMatrixCache'[RotKey(lastOp'.totalR)] = lastOp'.rotMatrix
        /\ \/ \A k \in DOMAIN rotationMatrixCache :
                 /\ k \in DOMAIN rotationMatrixCache'
                 /\ rotationMatrixCache'[k] = rotationMatrixCache[k]
           \/ /\ Cardinality(DOMAIN rotationMatrixCache) > ROTATION_MATRIX_CACHE_SIZE
              /\ DOMAIN rotationMatrixCache' = {RotKey(lastOp'.totalR)}

\* C24: both parts, on every step and after it
C24_CacheMatrixFaithful == [][CacheStep]_vars /\ []RoundedAnglesMatrix

\* a hit on a matrix composed at other angles than the tick's: same key,
\* same roundings
C24_Witness ==
    /\ Ticked
    /\ lastOp.recomputed
    /\ TickKey \in DOMAIN hist[1].composedAt
    /\ hist[1].composedAt[TickKey] # lastOp.totalR
    /\ lastOp.rotMatrix = rotationMatrixCache[TickKey]


----------------------------------------------------------------------------
(* The first tick of an instance (under SpecComparison) *)

\* the step is the first frame of instance i since it was created
FirstTickOf(i) ==
    /\ lastOp'.op = "tick"
    /\ lastOp'.inst = i
    /\ ~hist[i].seen.known

\* the line positions of instance i are still the zero-filled buffer its
\* render created
ZeroInitialised(sc) == sc.linePos = linesGeoPositions(sc.shape)

\* C25: the first tick of a newly created instance recomputes for every
\* initial input state (auto-rotation off, no transition and no scan
\* included), so after it the published positions are not the
\* zero-initialised buffers.
C25_FirstTickRecomputes ==
    [][\A i \in Instances :
          FirstTickOf(i) => /\ lastOp'.recomputed
                            /\ ~ZeroInitialised(scene'[i])]_vars

\* the comparison instance has had frames and still shows the buffers of
\* its first render
StillZeroAfterTick ==
    /\ Ticked
    /\ lastOp.inst = 2
    /\ ~lastOp.recomputed
    /\ ZeroInitialised(scene[2])
    /\ Len(scene[2].linePos) > 0


----------------------------------------------------------------------------
(* A transition runs to its end (SpecMorphLive) *)

\* frame times of at least a tenth of a second, in milliseconds
LiveDeltaTimes == {100, 400}

\* a frame; the bound on the accumulators stops idle frames only, never
\* a frame of a transition
LiveFrame ==
    \E delta \in LiveDeltaTimes :
        /\ Tick(1, delta)
        /\ \/ scene[1].shapeTransitionRef.progress < 1 * UnitScale
           \/ AccWithin(1, MaxAcc)'

NextMorphLive == LiveFrame \/ ChangeShape \/ MorphPause

\* a transition of the main instance is running
TransitionRunning == scene[1].shapeTransitionRef.progress < 1 * UnitScale

\* the step is a frame (under NextMorphLive: a LiveFrame step)
FrameStep == lastOp'.op = "tick" /\ lastOp'.delta >= SetMin(LiveDeltaTimes)

\* The render loop calls useFrame on every animation frame for as long as
\* the Scene4D is mounted.  Weak fairness of the frames of a running
\* transition, WF_vars(TransitionRunning /\ LiveFrame), written out: such
\* a frame is enabled exactly when TransitionRunning holds (the main
\* instance is always mounted and the frame changes progress), and the
\* steps of it are the FrameSteps taken while TransitionRunning.
FramesKeepComing ==
    []<>(~TransitionRunning) \/ []<><<TransitionRunning /\ FrameStep>>_vars

SpecMorphLive == Init /\ [][NextMorphLive]_vars /\ FramesKeepComing

\* ceil(1 / (MORPH_SPEED * dt)) for the shortest frame time
TickBudget ==
    LET perTick == RoundDiv(SetMin(LiveDeltaTimes) * MORPH_SPEED, TimeScale)
    IN  (1 * UnitScale + perTick - 1) \div perTick

\* a transition that is running ends unless the shape changes again
TransitionEnds ==
    \A s \in ShapeKeys :
        (TransitionRunning /\ store.activeShape = s)
            ~> (~TransitionRunning \/ store.activeShape # s)

\* no more than the budget of ticks have found the transition running
WithinTickBudget == hist[1].morphTicks <= TickBudget

\* a recomputing tick that leaves progress at 1 transformed the vertices
\* of the active shape, which is the TO shape of the transition, and the
\* meshes are at their projections
PublishesTO ==
    (Ticked /\ lastOp.recomputed
        /\ scene[lastOp.inst].shapeTransitionRef.progress = 1 * UnitScale) =>
        \A sc \in {scene[lastOp.inst]} :
        \A to \in {SHAPE_CATALOG(lastOp.cl.activeShape)} :
        \A projected \in {ProjectVertices(lastOp.cl,
                              TransformVertices(lastOp.rotMatrix, to.vertices))} :
            /\ lastOp.currentVertices = to.vertices
            /\ sc.shapeTransitionRef.toShape \in {NoShape, to}
            /\ Len(sc.meshes) = Len(to.vertices)
            /\ \A i \in 1..Len(sc.meshes) : sc.meshes[i].position = projected[i]

----------------------------------------------------------------------------
(* Two instances on the module-level pools (SpecShared) *)

\* a short frame of the main instance or of the comparison instance
SharedFrame ==
    \E i \in Instances :
        \E delta \in SlowDeltaTimes : Tick(i, delta) /\ AccWithin(i, MaxSlowAcc)'

NextShared == SharedFrame \/ SlowVelocity \/ OpenClose

SpecShared == Init /\ [][NextShared]_vars

\* what instance i shows is what it would show alone
PublishesAsAlone(i) ==
    (scene[i].mounted /\ hist[i].alone.followed) =>
        \A sc \in {scene[i]}, alone \in {hist[i].alone.scene} :
            /\ sc.meshes = alone.meshes
            /\ sc.linePos = alone.linePos
            /\ sc.lineCol = alone.lineCol

\* C27: two mounted instances share the transform buffers and the
\* rotation-matrix cache; for every interleaving of their ticks and every
\* combination of their transition states each instance publishes
\* exactly the positions, visibility and colours it would publish if it
\* ran alone with the same inputs.
C27_PublishesAsAlone == \A i \in Instances : PublishesAsAlone(i)

\* both instances have recomputed on the shared pools
BothRecomputed ==
    /\ Ticked
    /\ lastOp.recomputed
    /\ lastOp.inst = 2
    /\ hist[1].alone.followed
    /\ hist[1].seen.known


----------------------------------------------------------------------------
(* The grid of the Clifford torus (under SpecShapes) *)

\* the index of grid point (i, j) on s2 columns
GridIndex(i, j, s2) == i * s2 + j

\* the edge list joins (i, j) to (i, j + 1 mod s2) and to (i + 1 mod s1, j)
JoinsGridNeighbours(shape, s1, s2) ==
    \A edgeSet \in {EdgeSet(shape)} :
    \A i \in 0..(s1 - 1), j \in 0..(s2 - 1) :
        /\ <<GridIndex(i, j, s2), GridIndex(i, (j + 1) % s2, s2)>> \in edgeSet
        /\ <<GridIndex(i, j, s2), GridIndex((i + 1) % s1, j, s2)>> \in edgeSet

\* no unordered pair of vertices is an edge more than once
NoPairTwice(shape) ==
    Cardinality({{shape.edges[e][1], shape.edges[e][2]} : e \in 1..Len(shape.edges)})
        = Len(shape.edges)

\* the torus was asked for with segment counts within the factory's cap
TorusWithinCap ==
    /\ Created
    /\ lastOp.key = "torus"
    /\ lastOp.args[2] \in 1..MAX_TORUS_SEGMENTS
    /\ lastOp.args[3] \in 1..MAX_TORUS_SEGMENTS

\* C28: for segment counts s1, s2 in 1..24 the torus factory returns
\* s1 * s2 vertices and an edge list in which (i, j) is joined to
\* (i, (j + 1) mod s2) and to ((i + 1) mod s1, j), every edge has two
\* distinct endpoints in range, and no unordered pair of vertices is an
\* edge more than once.
C28_TorusGrid ==
    TorusWithinCap =>
        /\ Len(lastOp.shape.vertices) = lastOp.args[2] * lastOp.args[3]
        /\ JoinsGridNeighbours(lastOp.shape, lastOp.args[2], lastOp.args[3])
        /\ EdgesInRangeAndDistinct(lastOp.shape)
        /\ NoPairTwice(lastOp.shape)

\* the same for segment counts of at least 3, where each ring has three
\* different points: it holds
TorusGridFrom3 ==
    (TorusWithinCap /\ lastOp.args[2] >= 3 /\ lastOp.args[3] >= 3) =>
        /\ Len(lastOp.shape.vertices) = lastOp.args[2] * lastOp.args[3]
        /\ Len(lastOp.shape.edges) = 2 * lastOp.args[2] * lastOp.args[3]
        /\ JoinsGridNeighbours(lastOp.shape, lastOp.args[2], lastOp.args[3])
        /\ EdgesInRangeAndDistinct(lastOp.shape)
        /\ NoPairTwice(lastOp.shape)

\* a ring of one segment: every edge along it joins a vertex to itself
RingOfOne ==
    /\ TorusWithinCap
    /\ lastOp.args[3] = 1
    /\ lastOp.args[2] = 16
    /\ <<0, 0>> \in EdgeSet(lastOp.shape)


----------------------------------------------------------------------------
(* The 24-cell (under SpecShapes) *)

\* the points with two coordinates +-s and two coordinates 0
TwoOfFour(s) ==
    {p \in {<<a, b, c, d>> : a \in {-s, 0, s}, b \in {-s, 0, s},
                             c \in {-s, 0, s}, d \in {-s, 0, s}} :
        Cardinality({k \in 1..4 : p[k] # 0}) = 2}

\* the number of edges at vertex index i
Degree(shape, i) ==
    Cardinality({e \in 1..Len(shape.edges) : i \in {shape.edges[e][1], shape.edges[e][2]}})

\* the shape is the 24-cell of half-diagonal s: its 24 points, an edge
\* exactly between the points at squared distance 2 s^2 (the squared
\* edge length), 96 edges, 8 at every vertex
IsTwentyFourCell(shape, s) ==
    /\ Len(shape.vertices) = 24
    /\ {shape.vertices[n] : n \in 1..Len(shape.vertices)} = TwoOfFour(s)
    /\ \A edgeSet \in {EdgeSet(shape)} :
          \A j \in 1..Len(shape.vertices) : \A i \in 1..(j - 1) :
              <<i - 1, j - 1>> \in edgeSet
                  <=> Dist2(shape.vertices[i], shape.vertices[j]) = 2 * s * s
    /\ Counts(shape, 24, 96)
    /\ \A i \in 0..(Len(shape.vertices) - 1) : Degree(shape, i) = 8

Created24 == Created /\ lastOp.key = "24cell"

\* C29: the 24-cell factory returns exactly the 24 points with two
\* coordinates +-size/sqrt(2) and two 0, whichever construction path
\* produces them, and joins two vertices iff their squared distance is
\* the squared edge length size^2: 96 edges, every vertex of degree 8.
C29_TwentyFourCell ==
    Created24 => IsTwentyFourCell(lastOp.shape, OverSqrt2(1, lastOp.args[1]))

\* the same for sizes of at least one, the catalog's among them: it holds
TwentyFourCellFromOne ==
    (Created24 /\ lastOp.args[1] >= 1 * CoordScale) =>
        IsTwentyFourCell(lastOp.shape, OverSqrt2(1, lastOp.args[1]))

\* the 24-cell of size 0.3 has the right 24 points and 168 edges, 14 at
\* its first vertex
SmallTwentyFourCell ==
    /\ Created24
    /\ lastOp.args[1] \in FineSizes
    /\ {lastOp.shape.vertices[n] : n \in 1..24} = TwoOfFour(OverSqrt2(1, lastOp.args[1]))
    /\ Len(lastOp.shape.edges) = 168
    /\ Degree(lastOp.shape, 0) = 14


----------------------------------------------------------------------------
(* The guided tour (SpecTour) *)

\* { xy, xz, xw, yz, yw, zw } in hundredths of a radian per second
Velocities(xy, xz, xw, yz, yw, zw) ==
    [p \in Planes |->
        (AngleScale \div 100)
        * (CASE p = "xy" -> xy [] p = "xz" -> xz [] p = "xw" -> xw
             [] p = "yz" -> yz [] p = "yw" -> yw [] p = "zw" -> zw)]

\* TOUR_STEPS: shape, autoRotate and settings of each step
TOUR_STEPS ==
    << [shape |-> "tesseract", autoRotate |-> Velocities(0, 0, 30, 0, 20, 0),
        settings |-> [showSlice |-> FALSE, colorByW |-> TRUE]],
       [shape |-> "tesseract", autoRotate |-> Velocities(10, 0, 40, 0, 30, 20),
        settings |-> [showSlice |-> FALSE, colorByW |-> TRUE]],
       [shape |-> "24cell", autoRotate |-> Velocities(0, 0, 25, 0, 15, 10),
        settings |-> [showSlice |-> FALSE, colorByW |-> TRUE]],
       [shape |-> "tesseract", autoRotate |-> Velocities(0, 0, 10, 0, 10, 0),
        settings |-> [showSlice |-> TRUE, colorByW |-> TRUE]],
       [shape |-> "sphere", autoRotate |-> Velocities(5, 5, 20, 5, 15, 10),
        settings |-> [showSlice |-> TRUE, colorByW |-> TRUE]],
       [shape |-> "5cell", autoRotate |-> Velocities(0, 0, 30, 0, 20, 0),
        settings |-> [showSlice |-> FALSE, colorByW |-> TRUE]] >>

\* the body of the tour-step effect: setActiveShape, toggleAutoRotation,
\* setAutoRotation for each plane, then the slice and colour settings
TourStepEffect(s, step) ==
    LET shaped == [s EXCEPT !.activeShape = step.shape]
        toggled == [shaped EXCEPT !.isAutoRotating = ~@]
        spun == [toggled EXCEPT !.autoRotation = step.autoRotate]
        sliced == IF step.settings.showSlice
                  THEN setWSlicePosition([spun EXCEPT !.showSlice = TRUE], 0)
                  ELSE spun
    IN  IF ~step.settings.colorByW /\ sliced.colorByW
        THEN [sliced EXCEPT !.colorByW = FALSE]
        ELSE sliced

\* the effect runs after a render in which tourStep or isTourMode
\* changed, and does something when the tour is on and the step exists
EffectRuns(old, new) ==
    /\ new.isTourMode
    /\ old.isTourMode # new.isTourMode \/ old.tourStep # new.tourStep
    /\ new.tourStep < Len(TOUR_STEPS)

\* the store once the effect that follows the change has run
AfterTourEffect(old, new) ==
    IF EffectRuns(old, new)
    THEN TourStepEffect(new, TOUR_STEPS[new.tourStep + 1])
    ELSE new

\* a tour action of the store, the effect it sets off and the re-render
TourStoreStep(newStore) ==
    \E after \in {AfterTourEffect(store, newStore)} :
        StoreStepNoting(after, MarkTransition(hist, after.activeShape # store.activeShape))

\* at most this many store actions run in a tour
MaxTourInputs == 8

\* the "Tour" button of the controls
startTour ==
    /\ TourStoreStep([store EXCEPT !.isTourMode = TRUE, !.tourStep = 0,
                                   !.activeShape = "tesseract",
                                   !.showSlice = FALSE, !.colorByW = TRUE])
    /\ InputsWithin(MaxTourInputs)'

\* "Next", shown before the last step
nextTourStep ==
    /\ store.isTourMode
    /\ store.tourStep < Len(TOUR_STEPS) - 1
    /\ TourStoreStep([store EXCEPT !.tourStep = @ + 1])
    /\ InputsWithin(MaxTourInputs)'

\* "Previous", shown after the first step
prevTourStep ==
    /\ store.isTourMode
    /\ store.tourStep > 0
    /\ TourStoreStep([store EXCEPT !.tourStep = Max2(0, @ - 1)])
    /\ InputsWithin(MaxTourInputs)'

\* the close button and "Finish Tour"
stopTour ==
    /\ store.isTourMode
    /\ TourStoreStep([store EXCEPT !.isTourMode = FALSE, !.tourStep = 0])
    /\ InputsWithin(MaxTourInputs)'

\* the auto-rotation switch of the controls
TourPause == ToggleAutoRotation /\ InputsWithin(MaxTourInputs)'

NextTour == startTour \/ nextTourStep \/ prevTourStep \/ stopTour \/ TourPause

SpecTour == Init /\ [][NextTour]_vars

\* the step whose effect ran in this step of the behaviour
StepShown == TOUR_STEPS[store'.tourStep + 1]

\* C30: after the tour-step effect has run for any tour step (reached
\* through startTour, nextTourStep or prevTourStep) auto-rotation is
\* enabled, whatever it was before, and the six velocities are the
\* step's autoRotate values.
C30_TourStepEnablesAutoRotation ==
    [][EffectRuns(store, store') =>
          /\ store'.isAutoRotating
          /\ store'.autoRotation = StepShown.autoRotate]_vars

\* what the effect does do: it sets the velocities and the shape of the
\* step and flips the auto-rotation flag
TourStepFlipsAutoRotation ==
    [][EffectRuns(store, store') =>
          /\ store'.isAutoRotating = ~store.isAutoRotating
          /\ store'.autoRotation = StepShown.autoRotate
          /\ store'.activeShape = StepShown.shape]_vars

\* the tour is showing a step with auto-rotation off
TourStepNotRotating ==
    /\ store.isTourMode
    /\ store.tourStep = 2
    /\ store.activeShape = "24cell"
    /\ ~store.isAutoRotating
    /\ store.autoRotation = TOUR_STEPS[3].autoRotate

============================================================================
